---- MODULE Spec2Model ----
(***************************************************************************)
(* Verification model of the just-binary shell interpreter.                *)
(*                                                                         *)
(* Several parts of the program are modelled, each with its own            *)
(* specification over the same variables:                                  *)
(*   SpecGetopts    - the getopts builtin (handleGetopts)                  *)
(*   SpecPipe       - BashEnv.exec / executePipeline / executeCommand      *)
(*   SpecStmt       - executeStatements / executeCondition and the         *)
(*                    control-flow errors that unwind through them         *)
(*   SpecLoop       - the same with loops and break                        *)
(*   SpecLazyInTurn - createLazyCustomCommand                              *)
(*   SpecShell      - BashEnv.registerCommand, executeCommand, handleCd    *)
(*   SpecEnvAdapter - createStringEnvAdapter over ctx.env                  *)
(*   SpecQuote      - printf %q (shellQuoteBytes) and reading it back      *)
(*   SpecGetoptsReset - getopts calls with OPTIND=1 between them           *)
(*   SpecPosition   - the invocations of one getopts call                  *)
(*   SpecLazy       - createLazyCustomCommand, executions that overlap     *)
(*   SpecPrintf     - the format reuse loop of printf and formatOnce       *)
(*   SpecXargs      - the batching loop of xargs -n                        *)
(*   SpecCut        - extractByRanges of cut -f                            *)
(* Text is modelled as sequences of one-character strings, byte buffers    *)
(* as sequences of small tokens.                                           *)
(***************************************************************************)
EXTENDS Integers, Sequences, FiniteSets, TLC

VARIABLES
    \* ---- getopts ----
    optstring,      \* args[0] of every getopts call
    argsToProcess,  \* the argument list that is parsed
    invalidVarName, \* args[1] of every getopts call is not an identifier
    genv,           \* ctx.state.env: OPTIND, __GETOPTS_CHARINDEX, OPTARG, name
    gres,           \* ExecResult of the last getopts call
    ghist,          \* the results of the calls made so far, oldest first
    \* ---- BashEnv ----
    pipelines,      \* exec: the parsed command line, a list of Pipelines
    bpc,            \* exec: "pipeline" while a pipeline runs, "done" after return
    pIdx,           \* exec: the pipeline of the for loop
    xstdin,         \* exec: stdin
    xlast,          \* exec: lastResult, the value exec returns
    cIdx,           \* executePipeline: i + 1
    stdin,          \* executePipeline: stdin
    lastResult,     \* executePipeline: lastResult
    accumulatedStdout,  \* executePipeline
    accumulatedStderr,  \* executePipeline
    plog,           \* one entry per loop iteration of executePipeline, oldest first
    \* ---- interpreter: statement lists ----
    errexit,        \* ctx.state.options.errexit (set -e)
    inCondition,    \* ctx.state.inCondition
    frames,         \* the active executeStatements / executeCondition calls
    thrown,         \* the error that is propagating, or NoError
    spc,            \* "run", "unwind" (an error propagates) or "done"
    final,          \* the result the host receives
    nstmt,          \* statements started so far
    wout,           \* every byte written to stdout so far, in order
    werr,           \* every byte written to stderr so far, in order
    fatal,          \* the first error raised, or NoError
    ranAfterFatal,  \* a statement was started after the first error was raised
    brk,            \* the last break: its levels, where execution has to go on, and
                    \* what was found when its loop caught it
    caught,         \* the last error a list turned into a result: what the list had
                    \* accumulated and what it yielded
    \* ---- lazy custom commands ----
    created,        \* the lazy commands createLazyCustomCommand has wrapped
    cached,         \* per lazy command: 0 for null, k for the Command of the k-th load()
    loads,          \* per lazy command: the load() calls made, "pending", "resolved" or "rejected"
    execs,          \* the executions of lazy commands started so far, oldest first
    \* ---- BashEnv: one command at a time ----
    commands,       \* this.commands: name -> "none", "builtin" or "custom"
    cwd,            \* this.cwd
    previousDir,    \* this.previousDir
    shellEnv,       \* this.env: PWD and OLDPWD
    fs,             \* this.fs: the content of the file the redirections name
    shn,            \* executeCommand calls made so far
    shlast,         \* the last executeCommand call: its input, what ran, its result
    \* ---- custom commands: the environment ----
    ctxEnv,         \* ctx.env of the interpreter: name -> bytes
    adapter,        \* a command is running with an adapter over ctx.env
    atCreation,     \* what ctx.env held when the adapter was made
    envn,           \* steps taken so far
    envlast,        \* the last step: the call, its arguments, what it returned
    \* ---- printf %q ----
    qx,             \* the argument: bytes
    qtext,          \* what printf wrote: bytes
    qback,          \* what eval echo wrote for the text: bytes
    qpc,            \* "given", "quoted", "read"
    \* ---- getopts: the invocations of one call ----
    targs,          \* argsToProcess
    tOptind,        \* Number.parseInt of OPTIND
    tCharIndex,     \* Number.parseInt of __GETOPTS_CHARINDEX
    tdepth,         \* re-invocations made by the call
    tpc,            \* "invoked", "returned"
    \* ---- printf ----
    pformat,        \* processedFormat, one byte per element
    pargs,          \* formatArgs
    plimit,         \* ctx.limits?.maxStringLength
    pargPos,        \* argPos
    poutput,        \* output
    ppasses,        \* passes of the do-while loop made so far
    ppc,            \* "loop", "done", "stopped" (break), "thrown"
    \* ---- xargs ----
    xitems,         \* items
    xmaxArgs,       \* maxArgs
    xi,             \* i of the batching loop
    xbatches,       \* the batches handed to executeCommand, oldest first
    xpc,            \* "start", "loop", "returned"
    \* ---- cut ----
    cfields,        \* fields of the line
    cranges,        \* ranges
    cselected,      \* selected
    cpc             \* "given", "cut"

gvars == <<optstring, argsToProcess, invalidVarName, genv, gres, ghist>>

bvars == <<pipelines, bpc, pIdx, xstdin, xlast, cIdx, stdin, lastResult,
           accumulatedStdout, accumulatedStderr, plog>>

svars == <<errexit, inCondition, frames, thrown, spc, final, nstmt, wout, werr,
           fatal, ranAfterFatal, caught, brk>>

lvars == <<created, cached, loads, execs>>

shvars == <<commands, cwd, previousDir, shellEnv, fs, shn, shlast>>

evars == <<ctxEnv, adapter, atCreation, envn, envlast>>

qvars == <<qx, qtext, qback, qpc>>

tvars == <<targs, tOptind, tCharIndex, tdepth, tpc>>

pfvars == <<pformat, pargs, plimit, pargPos, poutput, ppasses, ppc>>

xavars == <<xitems, xmaxArgs, xi, xbatches, xpc>>

cuvars == <<cfields, cranges, cselected, cpc>>

vars == <<optstring, argsToProcess, invalidVarName, genv, gres, ghist,
          pipelines, bpc, pIdx, xstdin, xlast, cIdx, stdin, lastResult,
          accumulatedStdout, accumulatedStderr, plog,
          errexit, inCondition, frames, thrown, spc, final, nstmt, wout, werr,
          fatal, ranAfterFatal, caught, brk,
          created, cached, loads, execs,
          commands, cwd, previousDir, shellEnv, fs, shn, shlast,
          ctxEnv, adapter, atCreation, envn, envlast,
          qx, qtext, qback, qpc,
          targs, tOptind, tCharIndex, tdepth, tpc,
          pformat, pargs, plimit, pargPos, poutput, ppasses, ppc,
          xitems, xmaxArgs, xi, xbatches, xpc,
          cfields, cranges, cselected, cpc>>

(***************************************************************************)
(* Bounds                                                                  *)
(***************************************************************************)
MaxArgs == 2        \* arguments handed to getopts
MaxOptChars == 3    \* option characters in the whole argument list
MaxCalls == 5       \* getopts calls made over one argument list
MaxCmds == 3        \* commands of one command line, over all its pipelines
MaxStmts == 5       \* statements one script starts
MaxShellCmds == 3   \* executeCommand calls of one BashEnv
MaxCustom == 1      \* custom commands registered with one BashEnv
MaxEnvOps == 4      \* steps of the interpreter and of a command on the environment
MaxQuoteLen == 2    \* bytes of the argument of %q
MaxExecs == 3       \* executions of lazy commands
MaxIter == 2        \* iterations of one loop
MaxLoops == 2       \* loops inside one another
MaxDepth == 3       \* statement lists nested inside the script's list
MaxFormatLen == 3   \* bytes of the format of printf
MaxPrintfArgs == 2  \* arguments after the format of printf
MaxStringLength == 2    \* the limit on the output of printf, when there is one
MaxItems == 3       \* items xargs reads
MaxBatches == 4     \* iterations of the batching loop of xargs that are followed
MaxFields == 2      \* fields of the line cut reads
MaxRanges == 2      \* ranges of the list of cut -f

(***************************************************************************)
(* Text helpers                                                            *)
(***************************************************************************)
\* the characters option arguments are made of
OptChars == {"a", "b", ":"}

SeqsUpTo(S, n) == UNION {[1..k -> S] : k \in 0..n}

\* String.prototype.slice(from) with a 0-based index
Slice(s, from) == SubSeq(s, from + 1, Len(s))

\* String.prototype.indexOf(c): 0-based index of the first occurrence, or -1
IndexOf(s, c) ==
    IF \E i \in 1..Len(s) : s[i] = c
    THEN (CHOOSE i \in 1..Len(s) : s[i] = c /\ \A j \in 1..(i - 1) : s[j] # c) - 1
    ELSE -1

\* String.prototype.startsWith(c) for a one-character prefix
StartsWith(s, c) == Len(s) > 0 /\ s[1] = c

(***************************************************************************)
(* getopts                                                                 *)
(***************************************************************************)
EMPTY == <<>>

\* the value a variable of the environment has before anything is stored
Unset == "unset"

silentMode(ostr) == StartsWith(ostr, ":")

actualOptstring(ostr) == IF silentMode(ostr) THEN Slice(ostr, 1) ELSE ostr

\* envSet(ctx.state.env, varName, v), skipped when the name is no identifier
SetName(env, validName, v) == IF validName THEN [env EXCEPT !.name = v] ELSE env

\* the exit code without the test of the variable name
GetoptsExitIgnoresName(validName, code) == code

\* exitCode: invalidVarName ? 2 : code
GetoptsExit(validName, code) == IF validName THEN code ELSE 2

\* Advance with the char-index for bundled options dropped: always next argument
AdvanceSkipsBundle(env, optind, startIndex, currentArg) ==
    [env EXCEPT !.OPTIND = optind + 1, !.CHARINDEX = 0]

\* "move to next character or next argument" (both places that do it)
Advance(env, optind, startIndex, currentArg) ==
    IF startIndex + 1 < Len(currentArg)
    THEN [env EXCEPT !.CHARINDEX = startIndex + 1, !.OPTIND = optind]
    ELSE [env EXCEPT !.OPTIND = optind + 1, !.CHARINDEX = 0]

\* the lookup of the option character in the option string
OptIndex(ostr, optChar) == IndexOf(actualOptstring(ostr), optChar)

requiresArg(ostr, optIndex) ==
    /\ optIndex + 1 < Len(actualOptstring(ostr))
    /\ actualOptstring(ostr)[optIndex + 2] = ":"

IllegalOptionMsg(c) == <<[msg |-> "illegal option", opt |-> c]>>

MissingArgMsg(c) == <<[msg |-> "option requires an argument", opt |-> c]>>

\* the branch taken for an option character that is not in the option string
InvalidOption(env, ostr, validName, optind, startIndex, currentArg, optChar) ==
    LET e1 == IF silentMode(ostr) THEN [env EXCEPT !.OPTARG = <<optChar>>] ELSE env
        e2 == SetName(e1, validName, "?")
    IN  [env |-> Advance(e2, optind, startIndex, currentArg),
         exitCode |-> GetoptsExit(validName, 0),
         stderr |-> IF silentMode(ostr) THEN EMPTY ELSE IllegalOptionMsg(optChar)]

\* MissingArgument stepping over the argument that is not there
MissingArgumentSkipsTwo(env, ostr, validName, optind, optChar) ==
    LET e1 == IF silentMode(ostr)
              THEN SetName([env EXCEPT !.OPTARG = <<optChar>>], validName, ":")
              ELSE SetName(env, validName, "?")
    IN  [env |-> [e1 EXCEPT !.OPTIND = optind + 2, !.CHARINDEX = 0],
         exitCode |-> GetoptsExit(validName, 0),
         stderr |-> IF silentMode(ostr) THEN EMPTY ELSE MissingArgMsg(optChar)]

\* the branch taken when the option takes an argument and none is left
MissingArgument(env, ostr, validName, optind, optChar) ==
    LET e1 == IF silentMode(ostr)
              THEN SetName([env EXCEPT !.OPTARG = <<optChar>>], validName, ":")
              ELSE SetName(env, validName, "?")
    IN  [env |-> [e1 EXCEPT !.OPTIND = optind + 1, !.CHARINDEX = 0],
         exitCode |-> GetoptsExit(validName, 0),
         stderr |-> IF silentMode(ostr) THEN EMPTY ELSE MissingArgMsg(optChar)]

\* the option character is in the option string
ValidOption(env, ostr, validName, argv, optind, startIndex, currentArg, optChar, optIndex) ==
    IF requiresArg(ostr, optIndex)
    THEN IF startIndex + 1 < Len(currentArg)
         THEN [env |-> SetName([env EXCEPT !.OPTARG = Slice(currentArg, startIndex + 1),
                                           !.OPTIND = optind + 1,
                                           !.CHARINDEX = 0], validName, optChar),
               exitCode |-> GetoptsExit(validName, 0), stderr |-> EMPTY]
         ELSE IF optind >= Len(argv)
              THEN MissingArgument(env, ostr, validName, optind, optChar)
              ELSE [env |-> SetName([env EXCEPT !.OPTARG = argv[optind + 1],
                                                !.OPTIND = optind + 2,
                                                !.CHARINDEX = 0], validName, optChar),
                    exitCode |-> GetoptsExit(validName, 0), stderr |-> EMPTY]
    ELSE [env |-> SetName(Advance(env, optind, startIndex, currentArg), validName, optChar),
          exitCode |-> GetoptsExit(validName, 0), stderr |-> EMPTY]

RECURSIVE handleGetopts(_, _, _, _)
handleGetopts(env0, ostr, validName, argv) ==
    LET optind == IF env0.OPTIND < 1 THEN 1 ELSE env0.OPTIND
        charIndex == env0.CHARINDEX
        env == [env0 EXCEPT !.OPTARG = EMPTY]
    IN
    IF optind > Len(argv)
    THEN [env |-> [SetName(env, validName, "?")
                      EXCEPT !.OPTIND = Len(argv) + 1, !.CHARINDEX = 0],
          exitCode |-> GetoptsExit(validName, 1), stderr |-> EMPTY]
    ELSE
    LET currentArg == argv[optind] IN
    IF currentArg = EMPTY \/ currentArg = <<"-">> \/ ~StartsWith(currentArg, "-")
    THEN [env |-> SetName(env, validName, "?"),
          exitCode |-> GetoptsExit(validName, 1), stderr |-> EMPTY]
    ELSE IF currentArg = <<"-", "-">>
    THEN [env |-> SetName([env EXCEPT !.OPTIND = optind + 1, !.CHARINDEX = 0],
                          validName, "?"),
          exitCode |-> GetoptsExit(validName, 1), stderr |-> EMPTY]
    ELSE
    LET startIndex == IF charIndex = 0 THEN 1 ELSE charIndex IN
    IF startIndex >= Len(currentArg)
    THEN handleGetopts([env EXCEPT !.OPTIND = optind + 1, !.CHARINDEX = 0],
                       ostr, validName, argv)
    ELSE
    LET optChar == currentArg[startIndex + 1]
        optIndex == OptIndex(ostr, optChar)
    IN
    IF optIndex = -1
    THEN InvalidOption(env, ostr, validName, optind, startIndex, currentArg, optChar)
    ELSE ValidOption(env, ostr, validName, argv, optind, startIndex, currentArg,
                     optChar, optIndex)

\* the option strings the calls are made with: plain and silent, with and
\* without an option that takes an argument
OptStrings ==
    { <<"a", "b">>, <<"a", ":", "b">>, <<":", "a", "b">>, <<":", "a", ":", "b">> }

\* an argument that is not a group of options: "", "a", "-", "--"
OtherWords == { <<>>, <<"a">>, <<"-">>, <<"-", "-">> }

\* '-' followed by k option characters
OptionWords(k) == { <<"-">> \o w : w \in [1..k -> OptChars] }

\* the argument lists of at most n arguments with at most m option characters
RECURSIVE ArgListsOf(_, _)
ArgListsOf(n, m) ==
    IF n = 0 THEN { <<>> }
    ELSE { <<>> }
         \cup { <<w>> \o l : w \in OtherWords, l \in ArgListsOf(n - 1, m) }
         \cup UNION { { <<w>> \o l : w \in OptionWords(k), l \in ArgListsOf(n - 1, m - k) }
                       : k \in 1..m }

ArgLists == ArgListsOf(MaxArgs, MaxOptChars)

InitEnv == [OPTIND |-> 1, CHARINDEX |-> 0, OPTARG |-> EMPTY, name |-> Unset]

NoResult == [exitCode |-> -1, stderr |-> EMPTY]

(***************************************************************************)
(* BashEnv: exec, executePipeline, executeCommand                          *)
(***************************************************************************)
EmptyResult == [stdout |-> EMPTY, stderr |-> EMPTY, exitCode |-> 0]

\* the names this.commands maps to a Command
Registered == {"echo", "cat", "false"}

\* isNaN(parseInt(a, 10)) of an argument
IsNaN(a) == a \notin {"0", "1", "2"}

\* parseInt(a, 10) of an argument that holds a number
ParseInt(a) == CASE a = "0" -> 0 [] a = "1" -> 1 [] a = "2" -> 2

\* the exit builtin of executeCommand
ExitBuiltin(args) ==
    [stdout |-> EMPTY, stderr |-> EMPTY,
     exitCode |-> IF args = <<>> THEN 0
                  ELSE IF IsNaN(args[1]) THEN 1 ELSE ParseInt(args[1])]

\* cmd.execute(args, ctx) of the registered commands
RunRegistered(command, args, sin) ==
    CASE command = "echo"  -> [stdout |-> args, stderr |-> EMPTY, exitCode |-> 0]
      [] command = "cat"   -> [stdout |-> sin, stderr |-> EMPTY, exitCode |-> 0]
      [] command = "false" -> [stdout |-> EMPTY, stderr |-> EMPTY, exitCode |-> 1]

executeCommand(command, args, sin) ==
    IF command = "" THEN EmptyResult
    ELSE IF command = "exit" THEN ExitBuiltin(args)
    ELSE IF command \notin Registered
    THEN [stdout |-> EMPTY, stderr |-> <<"command not found">>, exitCode |-> 127]
    ELSE RunRegistered(command, args, sin)

\* ShouldSkip with the || test left out
ShouldSkipAndOnly(operator, last) == operator = "&&" /\ last.exitCode # 0

\* the two `continue` tests at the head of the loop body
ShouldSkip(operator, last) ==
    \/ operator = "&&" /\ last.exitCode # 0
    \/ operator = "||" /\ last.exitCode = 0

\* nextCommand?.operator || ''
NextOperator(cmds, i) == IF i + 1 <= Len(cmds) THEN cmds[i + 1].operator ELSE ""

\* const commandStdin = isPipedInput && i > 0 ? stdin : initialStdin
CommandStdin(operator, i, sin, initialStdin) ==
    IF operator = "" /\ i > 1 THEN sin ELSE initialStdin

\* isPipedOutput && i < pipeline.commands.length - 1
PipesToNext(cmds, i) == NextOperator(cmds, i) = "" /\ i < Len(cmds)

\* the command lines: echo x, cat, false, exit, exit 2, each after the first
\* joined by | && || ; or starting a new pipeline
CommandForms ==
    { [command |-> "echo", args |-> <<"x">>], [command |-> "cat", args |-> <<>>],
      [command |-> "false", args |-> <<>>], [command |-> "exit", args |-> <<>>],
      [command |-> "exit", args |-> <<"2">>] }

Separators == {"", "&&", "||", ";", "NEW"}

FlatLines ==
    UNION { { f \in [1..n -> [form : CommandForms, sep : Separators]] : f[1].sep = "" }
            : n \in 1..MaxCmds }

ChainedCommand(c) ==
    [command |-> c.form.command, args |-> c.form.args,
     operator |-> IF c.sep = "NEW" THEN "" ELSE c.sep]

\* the Pipeline list the parser hands to exec
RECURSIVE SplitPipelines(_)
SplitPipelines(f) ==
    IF Len(f) = 0 THEN <<>>
    ELSE LET init == SplitPipelines(SubSeq(f, 1, Len(f) - 1))
             c == f[Len(f)]
         IN  IF Len(f) = 1 \/ c.sep = "NEW"
             THEN Append(init, <<ChainedCommand(c)>>)
             ELSE [init EXCEPT ![Len(init)] = Append(@, ChainedCommand(c))]

(***************************************************************************)
(* Interpreter: executeStatements, executeCondition, control-flow errors   *)
(***************************************************************************)
\* one write of a statement: `what` tells the stream or the error message
Token(n, what) == [by |-> n, what |-> what]

NoError == [kind |-> "none", stdout |-> EMPTY, stderr |-> EMPTY, exitCode |-> 0,
            levels |-> 0]

NoFinal == [stdout |-> EMPTY, stderr |-> EMPTY, exitCode |-> -1, raised |-> "none"]

\* ExecutionLimitError.EXIT_CODE
EXIT_CODE == 126

\* the control-flow errors a statement of these scripts raises on its own
ThrownKinds == {"ExitError", "ExecutionLimitError", "NounsetError", "PosixFatalError"}

\* an Error that is no ControlFlowError, thrown by a statement
InternalError == "InternalError"

\* the exit code an error stands for
ExitCodeOf(kind) ==
    CASE kind = "ExitError" -> 2
      [] kind = "ExecutionLimitError" -> EXIT_CODE
      [] kind = "NounsetError" -> 1
      [] kind = "PosixFatalError" -> 2
      [] kind = InternalError -> 1

isScopeExitError(kind) == kind \in {"BreakError", "ContinueError", "ReturnError"}

\* the catch of executeStatements without its ErrexitError test
RethrownWithoutErrexit(kind) ==
    \/ isScopeExitError(kind)
    \/ kind \in {"ExitError", "ExecutionLimitError", "SubshellExitError"}

\* the errors the catch of executeStatements prepends to and throws again
Rethrown(kind) ==
    \/ isScopeExitError(kind)
    \/ kind \in {"ErrexitError", "ExitError", "ExecutionLimitError", "SubshellExitError"}

\* ControlFlowError.prependOutput
prependOutput(e, out, err) ==
    [e EXCEPT !.stdout = out \o e.stdout, !.stderr = err \o e.stderr]

\* encode(`${getErrorMessage(error)}\n`)
ErrorMessage(e) == <<Token(0, e.kind)>>

\* the result executeStatements returns for an error it does not rethrow
CaughtResult(frame, e) ==
    [stdout |-> frame.stdout, stderr |-> frame.stderr \o ErrorMessage(e), exitCode |-> 1]

\* executeCondition restores the flag only when no error was thrown
RestoredOnReturnOnly(saved, current, threw) == IF threw THEN current ELSE saved

\* the finally of executeCondition: the flag after the evaluation
RestoredInCondition(saved, current, threw) == saved

Frame(kind, out, err, saved) ==
    [kind |-> kind, stdout |-> out, stderr |-> err, exitCode |-> 0,
     savedInCondition |-> saved, iterations |-> 0]

Top == frames[Len(frames)]

Pop == SubSeq(frames, 1, Len(frames) - 1)

\* stdout = concat(stdout, result.stdout) ... exitCode = result.exitCode
Accumulate(frame, result) ==
    [frame EXCEPT !.stdout = @ \o result.stdout, !.stderr = @ \o result.stderr,
                  !.exitCode = result.exitCode]

\* the loop of the calling list receives the result of its statement
Deliver(stack, result) ==
    [stack EXCEPT ![Len(stack)] = Accumulate(@, result)]

(***************************************************************************)
(* BashEnv: registerCommand, executeCommand, applyRedirections, handleCd   *)
(***************************************************************************)
\* the commands the constructor registers
RegisteredBuiltins == {"echo", "ls"}

\* the built-in commands executeCommand handles itself
StateBuiltins == {"cd", "export", "unset", "exit"}

BuiltinNames == RegisteredBuiltins \cup StateBuiltins

CommandNames == BuiltinNames \cup {"nosuch"}

\* the directories of the file system
Dirs == {"/", "/dir1", "/dir2"}

\* the file of the file system, absent until it is written
NoFile == <<"absent">>

\* this.commands after the constructor
InitialCommands == [n \in CommandNames |-> IF n \in RegisteredBuiltins THEN "builtin" ELSE "none"]

\* which code runs for a command name: the branches of executeCommand
Dispatch(registry, command) ==
    IF command \in StateBuiltins THEN "shell"
    ELSE IF registry[command] = "none" THEN "not found"
    ELSE registry[command]

\* the lookup alone, without the built-ins executeCommand handles first
DispatchByLookup(registry, command) ==
    IF registry[command] = "none" THEN "not found" ELSE registry[command]

\* cmd.execute(args, ctx) of a registered command
RunCommandOf(impl, command) ==
    CASE impl = "custom" -> [stdout |-> <<"custom">>, stderr |-> EMPTY, exitCode |-> 0]
      [] command = "echo" -> [stdout |-> <<"x">>, stderr |-> EMPTY, exitCode |-> 0]
      [] command = "ls"   -> [stdout |-> <<"out">>, stderr |-> <<"err">>, exitCode |-> 2]

\* one step of the loop of applyRedirections on { stdout, stderr } and the file
ApplyRedirection(st, redir) ==
    CASE redir.type = "stdout" ->
            [st EXCEPT !.file = IF redir.append /\ st.file # NoFile
                                THEN st.file \o st.stdout ELSE st.stdout,
                       !.stdout = EMPTY]
      [] redir.type = "stderr" ->
            [st EXCEPT !.stderr = EMPTY]
      [] redir.type = "stderr-to-stdout" ->
            [st EXCEPT !.stdout = st.stdout \o st.stderr, !.stderr = EMPTY]

\* applyRedirections: the redirections in the order written
RECURSIVE applyRedirections(_, _)
applyRedirections(st, redirections) ==
    IF redirections = <<>> THEN st
    ELSE applyRedirections(ApplyRedirection(st, Head(redirections)), Tail(redirections))

\* the redirections of a command: > file, >> file, 2>/dev/null, 2>&1
RedirForms ==
    { [type |-> "stdout", append |-> FALSE], [type |-> "stdout", append |-> TRUE],
      [type |-> "stderr", append |-> FALSE], [type |-> "stderr-to-stdout", append |-> FALSE] }

\* no redirection, one, or 2>&1 before or after another one
RedirLists == { <<>> } \cup { <<r>> : r \in RedirForms }
              \cup { <<r, [type |-> "stderr-to-stdout", append |-> FALSE]>> : r \in RedirForms }
              \cup { <<[type |-> "stderr-to-stdout", append |-> FALSE], r>> : r \in RedirForms }

\* the commands executed: redirections are written after echo and ls
ShellInputs ==
    { [command |-> c, redirections |-> <<>>] : c \in CommandNames \ {"cd"} }
    \cup { [command |-> c, redirections |-> r] : c \in RegisteredBuiltins, r \in RedirLists }

\* the arguments of cd
CdTargets == {"/dir1", "/dir2", "-", "/nonexistent"}

\* handleCd: newDir
CdNewDir(target, prev) == IF target = "-" THEN prev ELSE target

NoCall == [command |-> "", target |-> "", redirections |-> <<>>, ran |-> "",
           registeredAs |-> "none",
           cwdBefore |-> "/", previousDirBefore |-> "/",
           result |-> EmptyResult]

ParkShell ==
    /\ commands = InitialCommands
    /\ cwd = "/"
    /\ previousDir = "/"
    /\ shellEnv = [PWD |-> Unset, OLDPWD |-> Unset]
    /\ fs = NoFile
    /\ shn = 0
    /\ shlast = NoCall

(***************************************************************************)
(* Custom commands: defineCommand, createStringEnvAdapter                  *)
(***************************************************************************)
\* the names the environment is asked for
EnvKeys == {"A", "B"}

\* backing.get(key) of a name that is not set
Absent == <<-1>>

\* get(key) of a name that is not set
Undefined == <<-2>>

REPLACEMENT == 65533

\* the byte values the interpreter stores: a, e-acute, and two that are not UTF-8
EnvValues == {<<97>>, <<195, 169>>, <<255>>, <<195>>}

\* the strings a command stores: a, e-acute, a lone surrogate, the empty string
EnvStrings == {<<97>>, <<233>>, <<55296>>, <<>>}

\* the bytes that have to follow a lead byte
Needed(lead) ==
    IF lead \in 194..223 THEN 1
    ELSE IF lead \in 224..239 THEN 2
    ELSE IF lead \in 240..244 THEN 3
    ELSE 0

\* byte j of a sequence may follow its lead byte
IsContinuation(bytes, j) ==
    /\ j <= Len(bytes)
    /\ IF j = 2
       THEN /\ bytes[j] >= (IF bytes[1] = 224 THEN 160 ELSE IF bytes[1] = 240 THEN 144 ELSE 128)
            /\ bytes[j] <= (IF bytes[1] = 237 THEN 159 ELSE IF bytes[1] = 244 THEN 143 ELSE 191)
       ELSE bytes[j] \in 128..191

\* how many of the bytes after the lead byte the decoder takes
Accepted(bytes) ==
    LET need == Needed(bytes[1])
        c1 == need >= 1 /\ IsContinuation(bytes, 2)
        c2 == c1 /\ need >= 2 /\ IsContinuation(bytes, 3)
        c3 == c2 /\ need >= 3 /\ IsContinuation(bytes, 4)
    IN  IF c3 THEN 3 ELSE IF c2 THEN 2 ELSE IF c1 THEN 1 ELSE 0

\* decoder.decode: UTF-8 to code points, one U+FFFD for each piece that is
\* not UTF-8
RECURSIVE decode(_)
decode(bytes) ==
    IF bytes = <<>> THEN <<>>
    ELSE IF bytes[1] < 128 THEN <<bytes[1]>> \o decode(Tail(bytes))
    ELSE LET need == Needed(bytes[1])
             got == Accepted(bytes)
             rest == decode(SubSeq(bytes, got + 2, Len(bytes)))
         IN  IF need = 0 \/ got < need THEN <<REPLACEMENT>> \o rest
             ELSE IF need = 1 THEN <<(bytes[1] - 192) * 64 + (bytes[2] - 128)>> \o rest
             ELSE IF need = 2
                  THEN <<(bytes[1] - 224) * 4096 + (bytes[2] - 128) * 64
                         + (bytes[3] - 128)>> \o rest
             ELSE <<(bytes[1] - 240) * 262144 + (bytes[2] - 128) * 4096
                    + (bytes[3] - 128) * 64 + (bytes[4] - 128)>> \o rest

\* the UTF-8 bytes of one character; a lone surrogate is written as U+FFFD
encodeChar(c) ==
    LET u == IF c \in 55296..57343 THEN REPLACEMENT ELSE c IN
    IF u < 128 THEN <<u>>
    ELSE IF u < 2048 THEN <<192 + (u \div 64), 128 + (u % 64)>>
    ELSE IF u < 65536
         THEN <<224 + (u \div 4096), 128 + ((u \div 64) % 64), 128 + (u % 64)>>
    ELSE <<240 + (u \div 262144), 128 + ((u \div 4096) % 64), 128 + ((u \div 64) % 64),
           128 + (u % 64)>>

\* encoder.encode
RECURSIVE encode(_)
encode(s) == IF s = <<>> THEN <<>> ELSE encodeChar(s[1]) \o encode(Tail(s))

\* a snapshot taken when the adapter was made, in place of the map itself
BackingSnapshot(current, snapshot) == snapshot

\* the map the adapter's methods work on: the one it was made over
Backing(current, snapshot) == current

\* backing.size
Size(backing) == Cardinality({k \in EnvKeys : backing[k] # Absent})

NoEnvOp == [op |-> "none", key |-> "", value |-> <<>>, returned |-> <<>>,
            before |-> [k \in EnvKeys |-> Absent]]

ParkEnv ==
    /\ ctxEnv = [k \in EnvKeys |-> Absent]
    /\ adapter = FALSE
    /\ atCreation = [k \in EnvKeys |-> Absent]
    /\ envn = 0
    /\ envlast = NoEnvOp

(***************************************************************************)
(* printf %q: shellQuoteBytes, formatQuoted                                *)
(***************************************************************************)
\* the bytes arguments are made of: a, $, ', \, newline, 0x01, the two bytes
\* of e-acute, the lead byte of an overlong sequence, and 0xff
QuoteBytes == {97, 36, 39, 92, 10, 1, 195, 169, 192, 255}

\* the byte sequences of at most n bytes
RECURSIVE BytesUpTo(_)
BytesUpTo(n) ==
    IF n = 0 THEN {<<>>}
    ELSE LET shorter == BytesUpTo(n - 1) IN
         shorter \cup {Append(s, b) : s \in {t \in shorter : Len(t) = n - 1}, b \in QuoteBytes}

utf8SeqLength(b) ==
    IF b < 128 THEN 1
    ELSE IF b \in 192..223 THEN 2
    ELSE IF b \in 224..239 THEN 3
    ELSE IF b \in 240..247 THEN 4
    ELSE 0

\* a-zA-Z0-9 . _ / -
IsSafeByte(b) == b \in 97..122 \/ b \in 65..90 \/ b \in 48..57 \/ b \in {46, 95, 47, 45}

\* space tab | & ; < > ( ) $ ` \ " ' * ? [ # ~ = % ! { }
SPECIAL == {32, 9, 124, 38, 59, 60, 62, 40, 41, 36, 96, 92, 34, 39, 42, 63, 91, 35,
            126, 61, 37, 33, 123, 125}

\* the bytes at i start a sequence of the announced length whose other bytes
\* are continuation bytes
IsValidSequenceAt(bytes, i) ==
    LET seqLen == utf8SeqLength(bytes[i]) IN
    /\ seqLen > 0
    /\ i + seqLen - 1 <= Len(bytes)
    /\ \A j \in 1..(seqLen - 1) : bytes[i + j] \in 128..191

\* the scan that decides for $'...'
RECURSIVE needsDollarQuote(_, _)
needsDollarQuote(bytes, i) ==
    IF i > Len(bytes) THEN FALSE
    ELSE IF bytes[i] < 32 \/ bytes[i] = 127 THEN TRUE
    ELSE IF bytes[i] >= 128
         THEN IF IsValidSequenceAt(bytes, i)
              THEN needsDollarQuote(bytes, i + utf8SeqLength(bytes[i]))
              ELSE TRUE
    ELSE needsDollarQuote(bytes, i + 1)

\* backslash and b.toString(8).padStart(3, "0")
OctalEscape(b) == <<92, 48 + (b \div 64), 48 + ((b \div 8) % 8), 48 + (b % 8)>>

\* the text between $' and '
RECURSIVE DollarQuoted(_, _)
DollarQuoted(bytes, i) ==
    IF i > Len(bytes) THEN <<>>
    ELSE LET b == bytes[i] IN
         IF b = 39 THEN <<92, 39>> \o DollarQuoted(bytes, i + 1)
         ELSE IF b = 92 THEN <<92, 92>> \o DollarQuoted(bytes, i + 1)
         ELSE IF b = 10 THEN <<92, 110>> \o DollarQuoted(bytes, i + 1)
         ELSE IF b = 9 THEN <<92, 116>> \o DollarQuoted(bytes, i + 1)
         ELSE IF b = 13 THEN <<92, 114>> \o DollarQuoted(bytes, i + 1)
         ELSE IF b = 7 THEN <<92, 97>> \o DollarQuoted(bytes, i + 1)
         ELSE IF b = 8 THEN <<92, 98>> \o DollarQuoted(bytes, i + 1)
         ELSE IF b = 12 THEN <<92, 102>> \o DollarQuoted(bytes, i + 1)
         ELSE IF b = 11 THEN <<92, 118>> \o DollarQuoted(bytes, i + 1)
         ELSE IF b = 27 THEN <<92, 69>> \o DollarQuoted(bytes, i + 1)
         ELSE IF b < 32 \/ b = 127 THEN OctalEscape(b) \o DollarQuoted(bytes, i + 1)
         ELSE IF b >= 128
              THEN IF IsValidSequenceAt(bytes, i)
                   THEN decode(SubSeq(bytes, i, i + utf8SeqLength(b) - 1))
                        \o DollarQuoted(bytes, i + utf8SeqLength(b))
                   ELSE OctalEscape(b) \o DollarQuoted(bytes, i + 1)
         ELSE IF b = 34 THEN <<92, 34>> \o DollarQuoted(bytes, i + 1)
         ELSE <<b>> \o DollarQuoted(bytes, i + 1)

\* backslash escaping of printable special characters
RECURSIVE BackslashQuoted(_, _)
BackslashQuoted(bytes, i) ==
    IF i > Len(bytes) THEN <<>>
    ELSE LET b == bytes[i] IN
         IF b >= 128
         THEN decode(SubSeq(bytes, i, i + utf8SeqLength(b) - 1))
              \o BackslashQuoted(bytes, i + utf8SeqLength(b))
         ELSE IF b \in SPECIAL THEN <<92, b>> \o BackslashQuoted(bytes, i + 1)
         ELSE <<b>> \o BackslashQuoted(bytes, i + 1)

\* the string %q writes for the bytes, as code points
shellQuoteBytes(bytes) ==
    IF Len(bytes) = 0 THEN <<39, 39>>
    ELSE IF \A i \in 1..Len(bytes) : IsSafeByte(bytes[i]) THEN decode(bytes)
    ELSE IF needsDollarQuote(bytes, 1) THEN <<36, 39>> \o DollarQuoted(bytes, 1) \o <<39>>
    ELSE BackslashQuoted(bytes, 1)

\* %q without a width: the quoted text unpadded
formatQuoted(rawArg) == shellQuoteBytes(rawArg)

\* what printf writes for the string: its UTF-8 bytes
pushStr(s) == encode(s)

IsOctalDigit(c) == c \in 48..55

\* the bytes of $'...' from position i up to the closing quote, and where the
\* text goes on after it
RECURSIVE ReadDollarQuote(_, _)
ReadDollarQuote(text, i) ==
    IF i > Len(text) THEN [bytes |-> <<>>, next |-> i]
    ELSE IF text[i] = 39 THEN [bytes |-> <<>>, next |-> i + 1]
    ELSE IF text[i] = 92 /\ i < Len(text)
         THEN LET c == text[i + 1]
                  digits == IF /\ i + 3 <= Len(text)
                               /\ IsOctalDigit(text[i + 2])
                               /\ IsOctalDigit(text[i + 3])
                            THEN 3
                            ELSE IF i + 2 <= Len(text) /\ IsOctalDigit(text[i + 2])
                                 THEN 2 ELSE 1
                  octal == IF digits = 3
                           THEN ((c - 48) * 64 + (text[i + 2] - 48) * 8 + (text[i + 3] - 48)) % 256
                           ELSE IF digits = 2 THEN (c - 48) * 8 + (text[i + 2] - 48)
                           ELSE c - 48
                  one == IF c = 110 THEN 10
                         ELSE IF c = 116 THEN 9
                         ELSE IF c = 114 THEN 13
                         ELSE IF c = 97 THEN 7
                         ELSE IF c = 98 THEN 8
                         ELSE IF c = 102 THEN 12
                         ELSE IF c = 118 THEN 11
                         ELSE IF c = 69 \/ c = 101 THEN 27
                         ELSE c
              IN  IF IsOctalDigit(c)
                  THEN LET rest == ReadDollarQuote(text, i + 1 + digits) IN
                       [bytes |-> <<octal>> \o rest.bytes, next |-> rest.next]
                  ELSE LET rest == ReadDollarQuote(text, i + 2) IN
                       [bytes |-> <<one>> \o rest.bytes, next |-> rest.next]
    ELSE LET rest == ReadDollarQuote(text, i + 1) IN
         [bytes |-> <<text[i]>> \o rest.bytes, next |-> rest.next]

\* the word the shell reads from the text: backslash keeps the next byte,
\* '...' keeps its bytes, $'...' is read with its escapes
RECURSIVE ReadWord(_, _)
ReadWord(text, i) ==
    IF i > Len(text) THEN <<>>
    ELSE IF text[i] = 92 /\ i < Len(text) THEN <<text[i + 1]>> \o ReadWord(text, i + 2)
    ELSE IF text[i] = 36 /\ i < Len(text) /\ text[i + 1] = 39
         THEN LET q == ReadDollarQuote(text, i + 2) IN q.bytes \o ReadWord(text, q.next)
    ELSE IF text[i] = 39
         THEN LET close == CHOOSE j \in (i + 1)..(Len(text) + 1) :
                              /\ j = Len(text) + 1 \/ text[j] = 39
                              /\ \A k \in (i + 1)..(j - 1) : text[k] # 39
              IN  SubSeq(text, i + 1, close - 1) \o ReadWord(text, close + 1)
    ELSE <<text[i]>> \o ReadWord(text, i + 1)

\* eval echo: the word read from the text, and a newline
EvalEcho(text) == ReadWord(text, 1) \o <<10>>

ParkQuote ==
    /\ qx = <<>>
    /\ qtext = <<>>
    /\ qback = <<>>
    /\ qpc = "parked"

(***************************************************************************)
(* getopts: one invocation at a time, for any stored OPTIND and char-index *)
(***************************************************************************)
\* Number.parseInt of a stored text: a number, or NaN
Num(n) == [nan |-> FALSE, n |-> n]

NaN == [nan |-> TRUE, n |-> 0]

\* the argument words that matter to the position: "", a, -, --, -a, -ab
PositionWords ==
    { <<>>, <<"a">>, <<"-">>, <<"-", "-">>, <<"-", "a">>, <<"-", "a", "b">> }

PositionArgLists == UNION { [1..n -> PositionWords] : n \in 0..MaxArgs }

\* what OPTIND and __GETOPTS_CHARINDEX may hold when a call starts
StoredOptinds == { Num(n) : n \in -1..(MaxArgs + 2) } \cup { NaN }

StoredCharIndexes == { Num(n) : n \in -1..(MaxOptChars + 1) } \cup { NaN }

\* if (optind < 1) optind = 1
ClampedOptind(stored) == IF ~stored.nan /\ stored.n < 1 THEN Num(1) ELSE stored

\* optind > argsToProcess.length
Exhausted(optind, argv) == ~optind.nan /\ optind.n > Len(argv)

\* !currentArg || currentArg === "-" || !currentArg.startsWith("-"), or "--"
EndOfOptions(optind, argv) ==
    IF optind.nan THEN TRUE
    ELSE \/ argv[optind.n] = EMPTY
         \/ argv[optind.n] = <<"-">>
         \/ ~StartsWith(argv[optind.n], "-")
         \/ argv[optind.n] = <<"-", "-">>

\* charIndex === 0 ? 1 : charIndex
StartIndex(charIndex) == IF ~charIndex.nan /\ charIndex.n = 0 THEN Num(1) ELSE charIndex

\* !optChar: currentArg[startIndex] is undefined
NoOptChar(startIndex, currentArg) ==
    \/ startIndex.nan
    \/ startIndex.n < 0
    \/ startIndex.n >= Len(currentArg)

\* the re-invocation stores OPTIND without moving on
SameArgument(optind) == Num(optind.n)

\* String(optind + 1)
NextArgument(optind) == Num(optind.n + 1)

ParkPosition ==
    /\ targs = <<>>
    /\ tOptind = Num(1)
    /\ tCharIndex = Num(0)
    /\ tdepth = 0
    /\ tpc = "parked"

(***************************************************************************)
(* printf: formatOnce and the format reuse loop                            *)
(***************************************************************************)
\* the bytes a format is made of: "%", "*" and "." steer formatOnce, "b" and
\* "s" are specifiers after a "%" and literal bytes elsewhere
FormatBytes == {"%", "*", ".", "b", "s"}

Formats == SeqsUpTo(FormatBytes, MaxFormatLen)

\* an argument is plain text or holds the escape \c, which stops %b
PrintfArgs == SeqsUpTo({"a", "\\c"}, MaxPrintfArgs)

\* format[i] of the 0-indexed byte array; "" stands for undefined
ByteAt(format, i) == IF i + 1 <= Len(format) THEN format[i + 1] ELSE ""

\* args[argIdx] || ""
ArgAt(args, argIdx) == IF argIdx + 1 <= Len(args) THEN args[argIdx + 1] ELSE ""

\* formatValue: %s yields the argument, %b its bytes up to \c and stopped,
\* every other specifier goes to sprintf, whose text is not modelled
formatValue(specifier, arg) ==
    IF specifier = "s"
    THEN [value |-> IF arg = "" THEN <<>> ELSE <<arg>>, stopped |-> FALSE]
    ELSE IF specifier = "b"
    THEN [value |-> IF arg \in {"", "\\c"} THEN <<>> ELSE <<arg>>,
          stopped |-> arg = "\\c"]
    ELSE [value |-> <<>>, stopped |-> FALSE]

\* the while loop of formatOnce from byte i on
RECURSIVE formatFrom(_, _, _, _, _, _)
formatFrom(format, args, argPos, i, argsConsumed, bytes) ==
    IF ~(i < Len(format))
    THEN [result |-> bytes, argsConsumed |-> argsConsumed, stopped |-> FALSE]
    ELSE IF ByteAt(format, i) = "%" /\ i + 1 < Len(format)
    THEN IF ByteAt(format, i + 1) = "%"
         THEN formatFrom(format, args, argPos, i + 2, argsConsumed, Append(bytes, "%"))
         ELSE LET widthFromArg == ByteAt(format, i + 1) = "*"
                  afterWidth == IF widthFromArg THEN i + 2 ELSE i + 1
                  hasPrecision == ByteAt(format, afterWidth) = "."
                  precisionFromArg == hasPrecision /\ ByteAt(format, afterWidth + 1) = "*"
                  at == IF ~hasPrecision THEN afterWidth
                        ELSE IF precisionFromArg THEN afterWidth + 2
                        ELSE afterWidth + 1
                  specifier == ByteAt(format, at)
                  taken == argsConsumed + (IF widthFromArg THEN 1 ELSE 0)
                                        + (IF precisionFromArg THEN 1 ELSE 0)
                  v == formatValue(specifier, ArgAt(args, argPos + taken))
              IN  IF v.stopped
                  THEN [result |-> bytes \o v.value, argsConsumed |-> taken + 1,
                        stopped |-> TRUE]
                  ELSE formatFrom(format, args, argPos, at + 1, taken + 1,
                                  bytes \o v.value)
    ELSE formatFrom(format, args, argPos, i + 1, argsConsumed,
                    Append(bytes, ByteAt(format, i)))

formatOnce(format, args, argPos) == formatFrom(format, args, argPos, 0, 0, <<>>)

\* output.length
ByteLength(output) ==
    LET RECURSIVE Sum(_)
        Sum(k) == IF k = 0 THEN 0
                  ELSE Sum(k - 1) + (IF output[k] = "\\c" THEN 2 ELSE 1)
    IN  Sum(Len(output))

\* ctx.limits?.maxStringLength; 0 stands for undefined
StringLimits == {0, MaxStringLength}

\* a loop that goes on while arguments are left
ArgumentsLeft(argPos, formatArgs) == argPos < Len(formatArgs)

\* while (argPos < formatArgs.length && argPos > 0)
ReuseFormat(argPos, formatArgs) == argPos < Len(formatArgs) /\ argPos > 0

ParkPrintf ==
    /\ pformat = <<>>
    /\ pargs = <<>>
    /\ plimit = 0
    /\ pargPos = 0
    /\ poutput = <<>>
    /\ ppasses = 0
    /\ ppc = "idle"

(***************************************************************************)
(* xargs -n: the batching loop                                             *)
(***************************************************************************)
\* items: the words of stdin
XargsItems == SeqsUpTo({"a", "b"}, MaxItems)

\* parseInt(args[++i], 10) of the word after -n
MaxArgsValues == {NaN} \cup {Num(n) : n \in -1..MaxItems}

\* Array.prototype.slice(start, end) with numbers
RelativeIndex(n, len) == IF n < 0 THEN (IF len + n < 0 THEN 0 ELSE len + n)
                         ELSE IF n > len THEN len ELSE n

slice(items, start, end) ==
    LET from == RelativeIndex(start, Len(items))
        to == RelativeIndex(end, Len(items))
    IN  IF from < to THEN SubSeq(items, from + 1, to) ELSE <<>>

\* i + maxArgs; NaN when either is NaN
Plus(a, b) == IF a.nan \/ b.nan THEN NaN ELSE Num(a.n + b.n)

\* i < items.length; false for NaN
LessThanLength(i, items) == ~i.nan /\ i.n < Len(items)

ParkXargs ==
    /\ xitems = <<>>
    /\ xmaxArgs = NaN
    /\ xi = NaN
    /\ xbatches = <<>>
    /\ xpc = "idle"

(***************************************************************************)
(* cut -f: extractByRanges                                                 *)
(***************************************************************************)
CutFieldValues == {"a", "b", "c"}

\* line.split(delimiter)
CutLines == {f \in SeqsUpTo(CutFieldValues, MaxFields) : Len(f) > 0}

\* parseRange: N, N-M, -M (start 1) and N-, whose end is null: open
CutRanges == {r \in [start : 1..MaxFields, end : 1..MaxFields, open : BOOLEAN] :
                r.open => r.end = r.start}

\* result.includes(item)
includes(result, item) == \E k \in 1..Len(result) : result[k] = item

CutRangeLists == {r \in SeqsUpTo(CutRanges, MaxRanges) : Len(r) > 0}

\* the inner for loop of extractByRanges from the 0-indexed i on
RECURSIVE extractRange(_, _, _, _)
extractRange(items, i, end, result) ==
    IF ~(i < end /\ i < Len(items)) THEN result
    ELSE extractRange(items, i + 1, end,
                      IF i >= 0 /\ ~includes(result, items[i + 1])
                      THEN Append(result, items[i + 1]) ELSE result)

\* the outer for loop of extractByRanges from the range r on
RECURSIVE extractFrom(_, _, _, _)
extractFrom(items, ranges, r, result) ==
    IF r > Len(ranges) THEN result
    ELSE LET start == ranges[r].start - 1
             end == IF ranges[r].open THEN Len(items) ELSE ranges[r].end
         IN  extractFrom(items, ranges, r + 1, extractRange(items, start, end, result))

extractByRanges(items, ranges) == extractFrom(items, ranges, 1, <<>>)

ParkCut ==
    /\ cfields = <<>>
    /\ cranges = <<>>
    /\ cselected = <<>>
    /\ cpc = "idle"

(***************************************************************************)
(* Lazy custom commands: createLazyCustomCommand                           *)
(***************************************************************************)
LazyNames == {"lazy-test", "lazy-hello"}

\* let cached: Command | null = null
NoCommand == 0

ParkLazy ==
    /\ created = {}
    /\ cached = [c \in LazyNames |-> NoCommand]
    /\ loads = [c \in LazyNames |-> <<>>]
    /\ execs = <<>>

ParkGetopts ==
    /\ optstring = <<>>
    /\ argsToProcess = <<>>
    /\ invalidVarName = FALSE
    /\ genv = InitEnv
    /\ gres = NoResult
    /\ ghist = <<>>

ParkBashEnv ==
    /\ pipelines = <<>>
    /\ bpc = "idle"
    /\ pIdx = 0
    /\ xstdin = EMPTY
    /\ xlast = EmptyResult
    /\ cIdx = 0
    /\ stdin = EMPTY
    /\ lastResult = EmptyResult
    /\ accumulatedStdout = EMPTY
    /\ accumulatedStderr = EMPTY
    /\ plog = <<>>

NoCaught == [kind |-> "none", accumulated |-> [stdout |-> EMPTY, stderr |-> EMPTY],
             yielded |-> [stdout |-> EMPTY, stderr |-> EMPTY, exitCode |-> 0]]

NoBreak == [state |-> "none", levels |-> 0, resume |-> 0, at |-> 0,
            kept |-> EMPTY, keptErr |-> EMPTY, written |-> EMPTY, writtenErr |-> EMPTY]

ParkStmt ==
    /\ errexit = FALSE
    /\ inCondition = FALSE
    /\ frames = <<>>
    /\ thrown = NoError
    /\ spc = "idle"
    /\ final = NoFinal
    /\ nstmt = 0
    /\ wout = EMPTY
    /\ werr = EMPTY
    /\ fatal = NoError
    /\ ranAfterFatal = FALSE
    /\ caught = NoCaught
    /\ brk = NoBreak

\* the script's statement list is entered, with or without set -e
InitStmt ==
    /\ errexit \in BOOLEAN
    /\ inCondition = FALSE
    /\ frames = <<Frame("script", EMPTY, EMPTY, FALSE)>>
    /\ thrown = NoError
    /\ spc = "run"
    /\ final = NoFinal
    /\ nstmt = 0
    /\ wout = EMPTY
    /\ werr = EMPTY
    /\ fatal = NoError
    /\ ranAfterFatal = FALSE
    /\ caught = NoCaught
    /\ brk = NoBreak
    /\ ParkGetopts
    /\ ParkBashEnv
    /\ ParkLazy
    /\ ParkShell
    /\ ParkEnv
    /\ ParkQuote
    /\ ParkPosition
    /\ ParkPrintf
    /\ ParkXargs
    /\ ParkCut

\* the loops that are running
LoopFrames == {i \in 1..Len(frames) : frames[i].kind = "loop"}

\* the calls that are running; a loop and its body count once
Depth == Len(frames) - Cardinality(LoopFrames)

\* a statement starts in a list, never in the loop itself
CanStart == spc = "run" /\ nstmt < MaxStmts /\ frames[Len(frames)].kind # "loop"

Started ==
    /\ nstmt' = nstmt + 1
    /\ ranAfterFatal' = (ranAfterFatal \/ fatal.kind # "none")

Raise(e) ==
    /\ thrown' = e
    /\ spc' = "unwind"
    /\ fatal' = IF fatal.kind = "none" THEN e ELSE fatal

\* a simple command runs, writes to both streams and returns exitCode; the
\* executor raises ErrexitError when set -e applies
SimpleCommand ==
    /\ CanStart
    /\ Started
    /\ \E exitCode \in {0, 1}, suppressed \in BOOLEAN :
         LET n == nstmt + 1
             result == [stdout |-> <<Token(n, "out")>>, stderr |-> <<Token(n, "err")>>,
                        exitCode |-> exitCode]
         IN  /\ exitCode = 0 => ~suppressed
             /\ wout' = wout \o result.stdout
             /\ werr' = werr \o result.stderr
             /\ IF errexit /\ exitCode # 0 /\ ~inCondition /\ ~suppressed
                THEN /\ Raise([kind |-> "ErrexitError", stdout |-> result.stdout,
                               stderr |-> result.stderr, exitCode |-> exitCode,
                               levels |-> 0])
                     /\ UNCHANGED frames
                ELSE /\ frames' = Deliver(frames, result)
                     /\ UNCHANGED <<thrown, spc, fatal>>
    /\ UNCHANGED <<errexit, inCondition, final>>
    /\ UNCHANGED <<caught, brk>>
    /\ UNCHANGED <<gvars, bvars, lvars, shvars, evars, qvars, tvars, pfvars,
                   xavars, cuvars>>

\* a statement raises a control-flow error that carries what it wrote
StatementThrows ==
    /\ CanStart
    /\ Started
    /\ \E kind \in ThrownKinds \cup {InternalError} :
         LET n == nstmt + 1
             e == IF kind = InternalError
                  THEN [kind |-> kind, stdout |-> EMPTY, stderr |-> EMPTY,
                        exitCode |-> ExitCodeOf(kind), levels |-> 0]
                  ELSE [kind |-> kind, stdout |-> <<Token(n, "out")>>,
                        stderr |-> <<Token(n, "err")>>, exitCode |-> ExitCodeOf(kind),
                        levels |-> 0]
         IN  /\ wout' = wout \o e.stdout
             /\ werr' = werr \o e.stderr
             /\ Raise(e)
    /\ UNCHANGED <<errexit, inCondition, frames, final>>
    /\ UNCHANGED <<caught, brk>>
    /\ UNCHANGED <<gvars, bvars, lvars, shvars, evars, qvars, tvars, pfvars,
                   xavars, cuvars>>

\* a group { ...; } calls executeStatements on its body
EnterGroup ==
    /\ CanStart
    /\ Depth <= MaxDepth
    /\ Started
    /\ frames' = Append(frames, Frame("list", EMPTY, EMPTY, FALSE))
    /\ UNCHANGED <<errexit, inCondition, thrown, spc, final, wout, werr, fatal>>
    /\ UNCHANGED <<caught, brk>>
    /\ UNCHANGED <<gvars, bvars, lvars, shvars, evars, qvars, tvars, pfvars,
                   xavars, cuvars>>

\* an if statement calls executeCondition on its condition
EnterCondition ==
    /\ CanStart
    /\ Depth <= MaxDepth
    /\ Started
    /\ frames' = Append(frames, Frame("cond", EMPTY, EMPTY, inCondition))
    /\ inCondition' = TRUE
    /\ UNCHANGED <<errexit, thrown, spc, final, wout, werr, fatal>>
    /\ UNCHANGED <<caught, brk>>
    /\ UNCHANGED <<gvars, bvars, lvars, shvars, evars, qvars, tvars, pfvars,
                   xavars, cuvars>>

\* executeStatements returns { stdout, stderr, exitCode } to its statement
ReturnFromList ==
    /\ spc = "run"
    /\ Top.kind = "list"
    /\ frames' = Deliver(Pop, [stdout |-> Top.stdout, stderr |-> Top.stderr,
                               exitCode |-> Top.exitCode])
    /\ UNCHANGED <<errexit, inCondition, thrown, spc, final, nstmt, wout, werr,
                   fatal, ranAfterFatal>>
    /\ UNCHANGED <<caught, brk>>
    /\ UNCHANGED <<gvars, bvars, lvars, shvars, evars, qvars, tvars, pfvars,
                   xavars, cuvars>>

\* executeCondition returns; the if statement runs its body on exit code 0,
\* handing it the condition's output, and is done otherwise
ReturnFromCondition ==
    /\ spc = "run"
    /\ Top.kind = "cond"
    /\ inCondition' = RestoredInCondition(Top.savedInCondition, inCondition, FALSE)
    /\ IF Top.exitCode = 0
       THEN frames' = Append(Pop, Frame("list", Top.stdout, Top.stderr, FALSE))
       ELSE frames' = Deliver(Pop, [stdout |-> Top.stdout, stderr |-> Top.stderr,
                                    exitCode |-> 0])
    /\ UNCHANGED <<errexit, thrown, spc, final, nstmt, wout, werr, fatal, ranAfterFatal>>
    /\ UNCHANGED <<caught, brk>>
    /\ UNCHANGED <<gvars, bvars, lvars, shvars, evars, qvars, tvars, pfvars,
                   xavars, cuvars>>

\* the script's list is through: the host receives its result
ScriptReturns ==
    /\ spc = "run"
    /\ Top.kind = "script"
    /\ final' = [stdout |-> Top.stdout, stderr |-> Top.stderr,
                 exitCode |-> Top.exitCode, raised |-> "none"]
    /\ spc' = "done"
    /\ UNCHANGED <<errexit, inCondition, frames, thrown, nstmt, wout, werr, fatal,
                   ranAfterFatal>>
    /\ UNCHANGED <<caught, brk>>
    /\ UNCHANGED <<gvars, bvars, lvars, shvars, evars, qvars, tvars, pfvars,
                   xavars, cuvars>>

\* the catch of executeStatements: prepend and rethrow, or turn into a result
CatchInList ==
    /\ spc = "unwind"
    /\ Top.kind = "list"
    /\ IF Rethrown(thrown.kind)
       THEN /\ thrown' = prependOutput(thrown, Top.stdout, Top.stderr)
            /\ frames' = Pop
            /\ UNCHANGED <<spc, caught>>
       ELSE /\ frames' = Deliver(Pop, CaughtResult(Top, thrown))
            /\ thrown' = NoError
            /\ spc' = "run"
            /\ caught' = [kind |-> thrown.kind,
                          accumulated |-> [stdout |-> Top.stdout, stderr |-> Top.stderr],
                          yielded |-> CaughtResult(Top, thrown)]
    /\ UNCHANGED <<errexit, inCondition, final, nstmt, wout, werr, fatal, ranAfterFatal>>
    /\ UNCHANGED brk
    /\ UNCHANGED <<gvars, bvars, lvars, shvars, evars, qvars, tvars, pfvars,
                   xavars, cuvars>>

\* an error leaves executeCondition through its finally
UnwindCondition ==
    /\ spc = "unwind"
    /\ Top.kind = "cond"
    /\ inCondition' = RestoredInCondition(Top.savedInCondition, inCondition, TRUE)
    /\ frames' = Pop
    /\ UNCHANGED <<errexit, thrown, spc, final, nstmt, wout, werr, fatal, ranAfterFatal>>
    /\ UNCHANGED <<caught, brk>>
    /\ UNCHANGED <<gvars, bvars, lvars, shvars, evars, qvars, tvars, pfvars,
                   xavars, cuvars>>

\* the error reaches the script: execution ends with the error's exit code and
\* the output the script accumulated followed by the output the error carries;
\* an error that is no control-flow error ends it as it ends a list
ScriptCatches ==
    /\ spc = "unwind"
    /\ Top.kind = "script"
    /\ IF thrown.kind = InternalError
       THEN /\ final' = [stdout |-> Top.stdout,
                         stderr |-> Top.stderr \o ErrorMessage(thrown),
                         exitCode |-> 1, raised |-> thrown.kind]
            /\ caught' = [kind |-> thrown.kind,
                          accumulated |-> [stdout |-> Top.stdout, stderr |-> Top.stderr],
                          yielded |-> CaughtResult(Top, thrown)]
       ELSE /\ final' = [stdout |-> Top.stdout \o thrown.stdout,
                         stderr |-> Top.stderr \o thrown.stderr,
                         exitCode |-> thrown.exitCode, raised |-> thrown.kind]
            /\ UNCHANGED <<caught, brk>>
    /\ spc' = "done"
    /\ UNCHANGED <<errexit, inCondition, frames, thrown, nstmt, wout, werr, fatal,
                   ranAfterFatal>>
    /\ UNCHANGED brk
    /\ UNCHANGED <<gvars, bvars, lvars, shvars, evars, qvars, tvars, pfvars,
                   xavars, cuvars>>

\* what the running calls have accumulated, outermost first
RECURSIVE FramesOutput(_, _)
FramesOutput(stack, stream) ==
    IF stack = <<>> THEN EMPTY
    ELSE FramesOutput(SubSeq(stack, 1, Len(stack) - 1), stream)
         \o (IF stream = "stdout" THEN stack[Len(stack)].stdout
             ELSE stack[Len(stack)].stderr)

\* the n-th loop counted from the innermost one
RECURSIVE NthLoopFromTop(_, _)
NthLoopFromTop(loopset, n) ==
    LET m == CHOOSE i \in loopset : \A j \in loopset : j <= i IN
    IF n = 1 THEN m ELSE NthLoopFromTop(loopset \ {m}, n - 1)

\* a loop statement starts: the loop keeps the output of its iterations
EnterLoop ==
    /\ CanStart
    /\ Cardinality(LoopFrames) < MaxLoops
    /\ Started
    /\ frames' = Append(frames, Frame("loop", EMPTY, EMPTY, FALSE))
    /\ UNCHANGED <<errexit, inCondition, thrown, spc, final, wout, werr, fatal>>
    /\ UNCHANGED <<caught, brk>>
    /\ UNCHANGED <<gvars, bvars, lvars, shvars, evars, qvars, tvars, pfvars,
                   xavars, cuvars>>

\* the loop runs its body once more: executeStatements(ctx, body)
StartIteration ==
    /\ spc = "run"
    /\ Top.kind = "loop"
    /\ Top.iterations < MaxIter
    /\ frames' = Append([frames EXCEPT ![Len(frames)].iterations = @ + 1],
                        Frame("list", EMPTY, EMPTY, FALSE))
    /\ UNCHANGED <<errexit, inCondition, thrown, spc, final, nstmt, wout, werr, fatal,
                   ranAfterFatal>>
    /\ UNCHANGED <<caught, brk>>
    /\ UNCHANGED <<gvars, bvars, lvars, shvars, evars, qvars, tvars, pfvars,
                   xavars, cuvars>>

\* the loop is through: it returns what its iterations wrote
LoopEnds ==
    /\ spc = "run"
    /\ Top.kind = "loop"
    /\ frames' = Deliver(Pop, [stdout |-> Top.stdout, stderr |-> Top.stderr,
                               exitCode |-> Top.exitCode])
    /\ UNCHANGED <<errexit, inCondition, thrown, spc, final, nstmt, wout, werr, fatal,
                   ranAfterFatal>>
    /\ UNCHANGED <<caught, brk>>
    /\ UNCHANGED <<gvars, bvars, lvars, shvars, evars, qvars, tvars, pfvars,
                   xavars, cuvars>>

\* break n inside at least n loops: throw new BreakError(n)
BreakStatement ==
    /\ CanStart
    /\ Started
    /\ \E n \in 1..Cardinality(LoopFrames) :
         /\ Raise([kind |-> "BreakError", stdout |-> EMPTY, stderr |-> EMPTY,
                   exitCode |-> 0, levels |-> n])
         /\ brk' = [state |-> "raised", levels |-> n,
                    resume |-> NthLoopFromTop(LoopFrames, n) - 1, at |-> 0,
                    kept |-> EMPTY, keptErr |-> EMPTY,
                    written |-> EMPTY, writtenErr |-> EMPTY]
    /\ UNCHANGED <<errexit, inCondition, frames, final, wout, werr>>
    /\ UNCHANGED caught
    /\ UNCHANGED <<gvars, bvars, lvars, shvars, evars, qvars, tvars, pfvars,
                   xavars, cuvars>>

\* an error reaches a loop: a BreakError with levels > 1 goes on with one level
\* less, a BreakError with levels 1 ends the loop, and every error takes the
\* output of the loop along
CatchInLoop ==
    /\ spc = "unwind"
    /\ Top.kind = "loop"
    /\ IF thrown.kind = "BreakError" /\ thrown.levels <= 1
       THEN LET stack == Deliver(Pop, [stdout |-> Top.stdout \o thrown.stdout,
                                       stderr |-> Top.stderr \o thrown.stderr,
                                       exitCode |-> 0])
            IN  /\ frames' = stack
                /\ thrown' = NoError
                /\ spc' = "run"
                /\ brk' = [brk EXCEPT !.state = "handled", !.at = Len(stack),
                                      !.kept = FramesOutput(stack, "stdout"),
                                      !.keptErr = FramesOutput(stack, "stderr"),
                                      !.written = wout, !.writtenErr = werr]
       ELSE /\ thrown' = prependOutput(
                            IF thrown.kind = "BreakError"
                            THEN [thrown EXCEPT !.levels = @ - 1] ELSE thrown,
                            Top.stdout, Top.stderr)
            /\ frames' = Pop
            /\ UNCHANGED <<spc, brk>>
    /\ UNCHANGED <<errexit, inCondition, final, nstmt, wout, werr, fatal, ranAfterFatal>>
    /\ UNCHANGED caught
    /\ UNCHANGED <<gvars, bvars, lvars, shvars, evars, qvars, tvars, pfvars,
                   xavars, cuvars>>

NextStmt ==
    \/ SimpleCommand
    \/ StatementThrows
    \/ EnterGroup
    \/ EnterCondition
    \/ ReturnFromList
    \/ ReturnFromCondition
    \/ ScriptReturns
    \/ CatchInList
    \/ UnwindCondition
    \/ ScriptCatches

SpecStmt == InitStmt /\ [][NextStmt]_vars

\* the interpreter runs a started script to its end
SpecStmtFair == SpecStmt /\ WF_vars(NextStmt)

NextLoop ==
    \/ SimpleCommand
    \/ EnterCondition
    \/ ReturnFromList
    \/ ReturnFromCondition
    \/ ScriptReturns
    \/ CatchInList
    \/ UnwindCondition
    \/ ScriptCatches
    \/ EnterLoop
    \/ StartIteration
    \/ LoopEnds
    \/ BreakStatement
    \/ CatchInLoop

\* scripts with loops and break
SpecLoop == InitStmt /\ [][NextLoop]_vars

\* exec has parsed the command line and calls executePipeline on the first one
InitBashEnv ==
    /\ \E f \in FlatLines : pipelines = SplitPipelines(f)
    /\ bpc = "pipeline"
    /\ pIdx = 1
    /\ xstdin = EMPTY
    /\ xlast = EmptyResult
    /\ cIdx = 1
    /\ stdin = EMPTY
    /\ lastResult = EmptyResult
    /\ accumulatedStdout = EMPTY
    /\ accumulatedStderr = EMPTY
    /\ plog = <<>>
    /\ ParkGetopts
    /\ ParkStmt
    /\ ParkLazy
    /\ ParkShell
    /\ ParkEnv
    /\ ParkQuote
    /\ ParkPosition
    /\ ParkPrintf
    /\ ParkXargs
    /\ ParkCut

LogEntry(c, ran, sin, result) ==
    [pipeline |-> pIdx, index |-> cIdx, command |-> c.command, args |-> c.args,
     operator |-> c.operator, ran |-> ran, stdin |-> sin, result |-> result]

\* one iteration of the loop of executePipeline that runs its command
RunCommand ==
    /\ bpc = "pipeline"
    /\ cIdx <= Len(pipelines[pIdx])
    /\ LET cmds == pipelines[pIdx]
           c == cmds[cIdx]
           commandStdin == CommandStdin(c.operator, cIdx, stdin, xstdin)
           result == executeCommand(c.command, c.args, commandStdin)
       IN  /\ ~ShouldSkip(c.operator, lastResult)
           /\ IF PipesToNext(cmds, cIdx)
              THEN /\ stdin' = result.stdout
                   /\ UNCHANGED accumulatedStdout
              ELSE /\ accumulatedStdout' = accumulatedStdout \o result.stdout
                   /\ UNCHANGED stdin
           /\ accumulatedStderr' = accumulatedStderr \o result.stderr
           /\ lastResult' = result
           /\ plog' = Append(plog, LogEntry(c, TRUE, commandStdin, result))
    /\ cIdx' = cIdx + 1
    /\ UNCHANGED <<pipelines, bpc, pIdx, xstdin, xlast>>
    /\ UNCHANGED <<gvars, svars, lvars, shvars, evars, qvars, tvars, pfvars,
                   xavars, cuvars>>

\* one iteration of the loop of executePipeline that takes a `continue`
SkipCommand ==
    /\ bpc = "pipeline"
    /\ cIdx <= Len(pipelines[pIdx])
    /\ LET c == pipelines[pIdx][cIdx] IN
         /\ ShouldSkip(c.operator, lastResult)
         /\ plog' = Append(plog, LogEntry(c, FALSE, EMPTY, EmptyResult))
    /\ cIdx' = cIdx + 1
    /\ UNCHANGED <<pipelines, bpc, pIdx, xstdin, xlast, stdin, lastResult,
                   accumulatedStdout, accumulatedStderr>>
    /\ UNCHANGED <<gvars, svars, lvars, shvars, evars, qvars, tvars, pfvars,
                   xavars, cuvars>>

\* executePipeline returns; exec keeps the result and goes to the next pipeline
PipelineReturn ==
    /\ bpc = "pipeline"
    /\ cIdx > Len(pipelines[pIdx])
    /\ LET result == [stdout |-> accumulatedStdout, stderr |-> accumulatedStderr,
                      exitCode |-> lastResult.exitCode]
       IN  /\ xstdin' = result.stdout
           /\ xlast' = result
           /\ stdin' = result.stdout
    /\ IF pIdx < Len(pipelines)
       THEN /\ pIdx' = pIdx + 1
            /\ bpc' = "pipeline"
       ELSE /\ pIdx' = pIdx
            /\ bpc' = "done"
    /\ cIdx' = 1
    /\ lastResult' = EmptyResult
    /\ accumulatedStdout' = EMPTY
    /\ accumulatedStderr' = EMPTY
    /\ UNCHANGED <<pipelines, plog>>
    /\ UNCHANGED <<gvars, svars, lvars, shvars, evars, qvars, tvars, pfvars,
                   xavars, cuvars>>

NextBashEnv == RunCommand \/ SkipCommand \/ PipelineReturn

SpecPipe == InitBashEnv /\ [][NextBashEnv]_vars

InitGetopts ==
    /\ optstring \in OptStrings
    /\ argsToProcess \in ArgLists
    /\ invalidVarName = FALSE
    /\ genv = InitEnv
    /\ gres = NoResult
    /\ ghist = <<>>
    /\ ParkBashEnv
    /\ ParkStmt
    /\ ParkLazy
    /\ ParkShell
    /\ ParkEnv
    /\ ParkQuote
    /\ ParkPosition
    /\ ParkPrintf
    /\ ParkXargs
    /\ ParkCut

\* one call `getopts optstring name args...`
GetoptsCall ==
    /\ Len(ghist) < MaxCalls
    /\ LET r == handleGetopts(genv, optstring, ~invalidVarName, argsToProcess) IN
         /\ genv' = r.env
         /\ gres' = [exitCode |-> r.exitCode, stderr |-> r.stderr]
         /\ ghist' = Append(ghist, [exitCode |-> r.exitCode, stderr |-> r.stderr,
                                    name |-> r.env.name, OPTARG |-> r.env.OPTARG,
                                    OPTIND |-> r.env.OPTIND,
                                    CHARINDEX |-> r.env.CHARINDEX])
    /\ UNCHANGED <<optstring, argsToProcess, invalidVarName>>
    /\ UNCHANGED <<bvars, svars, lvars, shvars, evars, qvars, tvars, pfvars,
                   xavars, cuvars>>

NextGetopts == GetoptsCall

SpecGetopts == InitGetopts /\ [][NextGetopts]_vars

\* the log entry of an assignment to OPTIND made between two calls
IsAssignment(h) == h.exitCode = -2

\* the caller assigns OPTIND=1 between two calls, once; nothing else is stored
ResetOptind ==
    /\ Len(ghist) < MaxCalls
    /\ Len(ghist) > 0
    /\ \A i \in 1..Len(ghist) : ~IsAssignment(ghist[i])
    /\ genv' = [genv EXCEPT !.OPTIND = 1]
    /\ ghist' = Append(ghist, [exitCode |-> -2, stderr |-> EMPTY,
                               name |-> genv.name, OPTARG |-> genv.OPTARG,
                               OPTIND |-> 1, CHARINDEX |-> genv.CHARINDEX])
    /\ UNCHANGED <<optstring, argsToProcess, invalidVarName, gres>>
    /\ UNCHANGED <<bvars, svars, lvars, shvars, evars, qvars, tvars, pfvars,
                   xavars, cuvars>>

NextGetoptsReset ==
    \/ GetoptsCall
    \/ ResetOptind

\* the calls of a script that starts parsing again by assigning OPTIND=1
SpecGetoptsReset == InitGetopts /\ [][NextGetoptsReset]_vars

\* the calls of one loop, made with an identifier or with another word as name
InitGetoptsNames ==
    /\ optstring \in OptStrings
    /\ argsToProcess \in ArgLists
    /\ invalidVarName \in BOOLEAN
    /\ genv = InitEnv
    /\ gres = NoResult
    /\ ghist = <<>>
    /\ ParkBashEnv
    /\ ParkStmt
    /\ ParkLazy
    /\ ParkShell
    /\ ParkEnv
    /\ ParkQuote
    /\ ParkPosition
    /\ ParkPrintf
    /\ ParkXargs
    /\ ParkCut

SpecGetoptsNames == InitGetoptsNames /\ [][NextGetopts]_vars

(***************************************************************************)
(* Lazy custom commands: executions                                        *)
(***************************************************************************)
InitLazy ==
    /\ created = {}
    /\ cached = [c \in LazyNames |-> NoCommand]
    /\ loads = [c \in LazyNames |-> <<>>]
    /\ execs = <<>>
    /\ ParkGetopts
    /\ ParkBashEnv
    /\ ParkStmt
    /\ ParkShell
    /\ ParkEnv
    /\ ParkQuote
    /\ ParkPosition
    /\ ParkPrintf
    /\ ParkXargs
    /\ ParkCut

\* no execution is between its start and its return
NoneRunning == \A e \in 1..Len(execs) : execs[e].pc \in {"done", "failed"}

\* createLazyCustomCommand(lazy): wraps the loader, cached = null
CreateLazy(c) ==
    /\ c \notin created
    /\ created' = created \cup {c}
    /\ UNCHANGED <<cached, loads, execs>>
    /\ UNCHANGED <<gvars, bvars, svars, shvars, evars, qvars, tvars, pfvars,
                   xavars, cuvars>>

\* execute that loads whether or not a command is cached
NotCachedAlways(c) == TRUE

\* if (!cached)
NotCached(c) == cached[c] = NoCommand

\* execute up to its first await: if (!cached) calls lazy.load()
StartExecute(c) ==
    /\ c \in created
    /\ Len(execs) < MaxExecs
    /\ IF NotCached(c)
       THEN /\ loads' = [loads EXCEPT ![c] = Append(@, "pending")]
            /\ execs' = Append(execs, [cmd |-> c, pc |-> "loading",
                                       load |-> Len(loads[c]) + 1, ran |-> NoCommand])
       ELSE /\ execs' = Append(execs, [cmd |-> c, pc |-> "run", load |-> 0,
                                       ran |-> NoCommand])
            /\ UNCHANGED loads
    /\ UNCHANGED <<created, cached>>
    /\ UNCHANGED <<gvars, bvars, svars, shvars, evars, qvars, tvars, pfvars,
                   xavars, cuvars>>

\* an execution started by the shell, which awaits each command before the next
ExecuteInTurn(c) == NoneRunning /\ StartExecute(c)

\* cached = await lazy.load(), the promise resolves
LoadResolves(e) ==
    /\ execs[e].pc = "loading"
    /\ cached' = [cached EXCEPT ![execs[e].cmd] = execs[e].load]
    /\ loads' = [loads EXCEPT ![execs[e].cmd][execs[e].load] = "resolved"]
    /\ execs' = [execs EXCEPT ![e].pc = "run"]
    /\ UNCHANGED created
    /\ UNCHANGED <<gvars, bvars, svars, shvars, evars, qvars, tvars, pfvars,
                   xavars, cuvars>>

\* await lazy.load() throws: execute rejects and cached is not assigned
LoadRejects(e) ==
    /\ execs[e].pc = "loading"
    /\ loads' = [loads EXCEPT ![execs[e].cmd][execs[e].load] = "rejected"]
    /\ execs' = [execs EXCEPT ![e].pc = "failed"]
    /\ UNCHANGED <<created, cached>>
    /\ UNCHANGED <<gvars, bvars, svars, shvars, evars, qvars, tvars, pfvars,
                   xavars, cuvars>>

\* return cached.execute(args, ctx)
RunCached(e) ==
    /\ execs[e].pc = "run"
    /\ execs' = [execs EXCEPT ![e].pc = "done", ![e].ran = cached[execs[e].cmd]]
    /\ UNCHANGED <<created, cached, loads>>
    /\ UNCHANGED <<gvars, bvars, svars, shvars, evars, qvars, tvars, pfvars,
                   xavars, cuvars>>

NextLazyInTurn ==
    \/ \E c \in LazyNames : CreateLazy(c)
    \/ \E c \in LazyNames : ExecuteInTurn(c)
    \/ \E e \in 1..Len(execs) : LoadResolves(e)
    \/ \E e \in 1..Len(execs) : LoadRejects(e)
    \/ \E e \in 1..Len(execs) : RunCached(e)

SpecLazyInTurn == InitLazy /\ [][NextLazyInTurn]_vars

(***************************************************************************)
(* BashEnv: commands executed one at a time                                *)
(***************************************************************************)
\* new BashEnv({ cwd: '/' }) with the directories /dir1 and /dir2
InitShell ==
    /\ commands = InitialCommands
    /\ cwd = "/"
    /\ previousDir = "/"
    /\ shellEnv = [PWD |-> Unset, OLDPWD |-> Unset]
    /\ fs = NoFile
    /\ shn = 0
    /\ shlast = NoCall
    /\ ParkGetopts
    /\ ParkBashEnv
    /\ ParkStmt
    /\ ParkLazy
    /\ ParkEnv
    /\ ParkQuote
    /\ ParkPosition
    /\ ParkPrintf
    /\ ParkXargs
    /\ ParkCut

\* registerCommand(command) with a custom command of that name
RegisterCommand(name) ==
    /\ Cardinality({n \in CommandNames : commands[n] = "custom"}) < MaxCustom
    /\ commands[name] # "custom"
    /\ commands' = [commands EXCEPT ![name] = "custom"]
    /\ UNCHANGED <<cwd, previousDir, shellEnv, fs, shn, shlast>>
    /\ UNCHANGED <<gvars, bvars, svars, lvars, evars, qvars, tvars, pfvars,
                   xavars, cuvars>>

\* executeCommand('cd', [target]): handleCd
ExecuteCd(target) ==
    /\ shn < MaxShellCmds
    /\ shn' = shn + 1
    /\ Dispatch(commands, "cd") = "shell"
    /\ LET newDir == CdNewDir(target, previousDir) IN
         IF newDir \in Dirs
         THEN /\ previousDir' = cwd
              /\ cwd' = newDir
              /\ shlast' = [command |-> "cd", target |-> target, redirections |-> <<>>,
                            ran |-> "shell", registeredAs |-> commands["cd"],
                            cwdBefore |-> cwd,
                            previousDirBefore |-> previousDir, result |-> EmptyResult]
         ELSE /\ UNCHANGED <<cwd, previousDir>>
              /\ shlast' = [command |-> "cd", target |-> target, redirections |-> <<>>,
                            ran |-> "shell", registeredAs |-> commands["cd"],
                            cwdBefore |-> cwd,
                            previousDirBefore |-> previousDir,
                            result |-> [stdout |-> EMPTY,
                                        stderr |-> <<"No such file or directory">>,
                                        exitCode |-> 1]]
    /\ UNCHANGED <<commands, shellEnv, fs>>
    /\ UNCHANGED <<gvars, bvars, svars, lvars, evars, qvars, tvars, pfvars,
                   xavars, cuvars>>

\* executeCommand of any other command, with its redirections
ExecuteOther(command, redirections) ==
    /\ shn < MaxShellCmds
    /\ shn' = shn + 1
    /\ command # "cd"
    /\ LET ran == Dispatch(commands, command) IN
         IF ran = "shell"
         THEN /\ shlast' = [NoCall EXCEPT !.command = command, !.ran = ran,
                                          !.registeredAs = commands[command],
                                          !.redirections = redirections,
                                          !.cwdBefore = cwd,
                                          !.previousDirBefore = previousDir]
              /\ UNCHANGED fs
         ELSE IF ran = "not found"
         THEN /\ shlast' = [NoCall EXCEPT !.command = command, !.ran = ran,
                                          !.registeredAs = commands[command],
                                          !.redirections = redirections,
                                          !.cwdBefore = cwd,
                                          !.previousDirBefore = previousDir,
                                          !.result = [stdout |-> EMPTY,
                                                      stderr |-> <<"command not found">>,
                                                      exitCode |-> 127]]
              /\ UNCHANGED fs
         ELSE LET r == RunCommandOf(ran, command)
                  st == applyRedirections([stdout |-> r.stdout, stderr |-> r.stderr,
                                           file |-> fs], redirections)
              IN  /\ fs' = st.file
                  /\ shlast' = [NoCall EXCEPT !.command = command, !.ran = ran,
                                          !.registeredAs = commands[command],
                                              !.redirections = redirections,
                                              !.cwdBefore = cwd,
                                              !.previousDirBefore = previousDir,
                                              !.result = [stdout |-> st.stdout,
                                                          stderr |-> st.stderr,
                                                          exitCode |-> r.exitCode]]
    /\ UNCHANGED <<commands, cwd, previousDir, shellEnv>>
    /\ UNCHANGED <<gvars, bvars, svars, lvars, evars, qvars, tvars, pfvars,
                   xavars, cuvars>>

NextShell ==
    \/ \E name \in BuiltinNames : RegisterCommand(name)
    \/ \E target \in CdTargets : ExecuteCd(target)
    \/ \E in \in ShellInputs : ExecuteOther(in.command, in.redirections)

SpecShell == InitShell /\ [][NextShell]_vars

(***************************************************************************)
(* Custom commands: the environment seen through the adapter               *)
(***************************************************************************)
InitEnvAdapter ==
    /\ ctxEnv = [k \in EnvKeys |-> Absent]
    /\ adapter = FALSE
    /\ atCreation = [k \in EnvKeys |-> Absent]
    /\ envn = 0
    /\ envlast = NoEnvOp
    /\ ParkGetopts
    /\ ParkBashEnv
    /\ ParkStmt
    /\ ParkLazy
    /\ ParkShell
    /\ ParkQuote
    /\ ParkPosition
    /\ ParkPrintf
    /\ ParkXargs
    /\ ParkCut

\* one more step of the interpreter or of the command
EnvStep(op, key, value, returned) ==
    /\ envn < MaxEnvOps
    /\ envn' = envn + 1
    /\ envlast' = [op |-> op, key |-> key, value |-> value, returned |-> returned,
                   before |-> ctxEnv]

\* the interpreter assigns a variable
InterpreterSets ==
    \E k \in EnvKeys, b \in EnvValues :
        /\ EnvStep("interpreter", k, b, <<>>)
        /\ ctxEnv' = [ctxEnv EXCEPT ![k] = b]
        /\ UNCHANGED <<adapter, atCreation>>
        /\ UNCHANGED <<gvars, bvars, svars, lvars, shvars, qvars, tvars,
                       pfvars, xavars, cuvars>>

\* the interpreter unsets a variable
InterpreterUnsets ==
    \E k \in EnvKeys :
        /\ ctxEnv[k] # Absent
        /\ EnvStep("interpreter", k, <<>>, <<>>)
        /\ ctxEnv' = [ctxEnv EXCEPT ![k] = Absent]
        /\ UNCHANGED <<adapter, atCreation>>
        /\ UNCHANGED <<gvars, bvars, svars, lvars, shvars, qvars, tvars,
                       pfvars, xavars, cuvars>>

\* a command made by defineCommand is executed: env: createStringEnvAdapter(ctx.env)
DefineCommandExecute ==
    /\ EnvStep("execute", "", <<>>, <<>>)
    /\ adapter' = TRUE
    /\ atCreation' = ctxEnv
    /\ UNCHANGED ctxEnv
    /\ UNCHANGED <<gvars, bvars, svars, lvars, shvars, qvars, tvars, pfvars,
                   xavars, cuvars>>

\* get(key)
AdapterGet ==
    \E k \in EnvKeys :
        LET v == Backing(ctxEnv, atCreation)[k] IN
        /\ adapter
        /\ EnvStep("get", k, <<>>, IF v # Absent THEN decode(v) ELSE Undefined)
        /\ UNCHANGED <<ctxEnv, adapter, atCreation>>
        /\ UNCHANGED <<gvars, bvars, svars, lvars, shvars, qvars, tvars,
                       pfvars, xavars, cuvars>>

\* set(key, value)
AdapterSet ==
    \E k \in EnvKeys, s \in EnvStrings :
        /\ adapter
        /\ EnvStep("set", k, s, <<>>)
        /\ ctxEnv' = [Backing(ctxEnv, atCreation) EXCEPT ![k] = encode(s)]
        /\ UNCHANGED <<adapter, atCreation>>
        /\ UNCHANGED <<gvars, bvars, svars, lvars, shvars, qvars, tvars,
                       pfvars, xavars, cuvars>>

\* has(key)
AdapterHas ==
    \E k \in EnvKeys :
        /\ adapter
        /\ EnvStep("has", k, <<>>, <<Backing(ctxEnv, atCreation)[k] # Absent>>)
        /\ UNCHANGED <<ctxEnv, adapter, atCreation>>
        /\ UNCHANGED <<gvars, bvars, svars, lvars, shvars, qvars, tvars,
                       pfvars, xavars, cuvars>>

\* delete(key)
AdapterDelete ==
    \E k \in EnvKeys :
        /\ adapter
        /\ EnvStep("delete", k, <<>>, <<Backing(ctxEnv, atCreation)[k] # Absent>>)
        /\ ctxEnv' = [Backing(ctxEnv, atCreation) EXCEPT ![k] = Absent]
        /\ UNCHANGED <<adapter, atCreation>>
        /\ UNCHANGED <<gvars, bvars, svars, lvars, shvars, qvars, tvars,
                       pfvars, xavars, cuvars>>

\* size
AdapterSize ==
    /\ adapter
    /\ EnvStep("size", "", <<>>, <<Size(Backing(ctxEnv, atCreation))>>)
    /\ UNCHANGED <<ctxEnv, adapter, atCreation>>
    /\ UNCHANGED <<gvars, bvars, svars, lvars, shvars, qvars, tvars, pfvars,
                   xavars, cuvars>>

\* clear()
AdapterClear ==
    /\ adapter
    /\ EnvStep("clear", "", <<>>, <<>>)
    /\ ctxEnv' = [k \in EnvKeys |-> Absent]
    /\ UNCHANGED <<adapter, atCreation>>
    /\ UNCHANGED <<gvars, bvars, svars, lvars, shvars, qvars, tvars, pfvars,
                   xavars, cuvars>>

NextEnvAdapter ==
    \/ InterpreterSets
    \/ InterpreterUnsets
    \/ DefineCommandExecute
    \/ AdapterGet
    \/ AdapterSet
    \/ AdapterHas
    \/ AdapterDelete
    \/ AdapterSize
    \/ AdapterClear

SpecEnvAdapter == InitEnvAdapter /\ [][NextEnvAdapter]_vars

(***************************************************************************)
(* printf %q: quoting an argument and reading the text back                *)
(***************************************************************************)
InitQuote ==
    /\ qx \in BytesUpTo(MaxQuoteLen)
    /\ qtext = <<>>
    /\ qback = <<>>
    /\ qpc = "given"
    /\ ParkGetopts
    /\ ParkBashEnv
    /\ ParkStmt
    /\ ParkLazy
    /\ ParkShell
    /\ ParkEnv
    /\ ParkPosition
    /\ ParkPrintf
    /\ ParkXargs
    /\ ParkCut

\* printf '%q' x
PrintfQuoted ==
    /\ qpc = "given"
    /\ qtext' = pushStr(formatQuoted(qx))
    /\ qpc' = "quoted"
    /\ UNCHANGED <<qx, qback>>
    /\ UNCHANGED <<gvars, bvars, svars, lvars, shvars, evars, tvars, pfvars,
                   xavars, cuvars>>

\* eval echo of the text
ReadBack ==
    /\ qpc = "quoted"
    /\ qback' = EvalEcho(qtext)
    /\ qpc' = "read"
    /\ UNCHANGED <<qx, qtext>>
    /\ UNCHANGED <<gvars, bvars, svars, lvars, shvars, evars, tvars, pfvars,
                   xavars, cuvars>>

NextQuote ==
    \/ PrintfQuoted
    \/ ReadBack

SpecQuote == InitQuote /\ [][NextQuote]_vars

(***************************************************************************)
(* getopts: the invocations of one call                                    *)
(***************************************************************************)
InitPosition ==
    /\ targs \in PositionArgLists
    /\ tOptind \in StoredOptinds
    /\ tCharIndex \in StoredCharIndexes
    /\ tdepth = 0
    /\ tpc = "invoked"
    /\ ParkGetopts
    /\ ParkBashEnv
    /\ ParkStmt
    /\ ParkLazy
    /\ ParkShell
    /\ ParkEnv
    /\ ParkQuote
    /\ ParkPrintf
    /\ ParkXargs
    /\ ParkCut

\* the invocation goes on with the current argument
HasOptChar ==
    LET optind == ClampedOptind(tOptind) IN
    /\ ~Exhausted(optind, targs)
    /\ ~EndOfOptions(optind, targs)
    /\ ~NoOptChar(StartIndex(tCharIndex), targs[optind.n])

\* the arguments are exhausted: OPTIND is set to args.length + 1 and the call returns
ReturnExhausted ==
    /\ tpc = "invoked"
    /\ Exhausted(ClampedOptind(tOptind), targs)
    /\ tOptind' = Num(Len(targs) + 1)
    /\ tCharIndex' = Num(0)
    /\ tpc' = "returned"
    /\ UNCHANGED <<targs, tdepth>>
    /\ UNCHANGED <<gvars, bvars, svars, lvars, shvars, evars, qvars, pfvars,
                   xavars, cuvars>>

\* the current argument is no option, or is --: the call returns
ReturnEndOfOptions ==
    /\ tpc = "invoked"
    /\ ~Exhausted(ClampedOptind(tOptind), targs)
    /\ EndOfOptions(ClampedOptind(tOptind), targs)
    /\ tpc' = "returned"
    /\ UNCHANGED <<targs, tOptind, tCharIndex, tdepth>>
    /\ UNCHANGED <<gvars, bvars, svars, lvars, shvars, evars, qvars, pfvars,
                   xavars, cuvars>>

\* no character left in the current argument: return handleGetopts(ctx, args)
Reinvoke ==
    LET optind == ClampedOptind(tOptind) IN
    /\ tpc = "invoked"
    /\ ~Exhausted(optind, targs)
    /\ ~EndOfOptions(optind, targs)
    /\ NoOptChar(StartIndex(tCharIndex), targs[optind.n])
    /\ tOptind' = NextArgument(optind)
    /\ tCharIndex' = Num(0)
    /\ tdepth' = tdepth + 1
    /\ UNCHANGED <<targs, tpc>>
    /\ UNCHANGED <<gvars, bvars, svars, lvars, shvars, evars, qvars, pfvars,
                   xavars, cuvars>>

\* an option character is examined: every path stores the position and returns
ReturnOption ==
    /\ tpc = "invoked"
    /\ HasOptChar
    /\ tpc' = "returned"
    /\ UNCHANGED <<targs, tOptind, tCharIndex, tdepth>>
    /\ UNCHANGED <<gvars, bvars, svars, lvars, shvars, evars, qvars, pfvars,
                   xavars, cuvars>>

NextPosition ==
    \/ ReturnExhausted
    \/ ReturnEndOfOptions
    \/ Reinvoke
    \/ ReturnOption

SpecPosition == InitPosition /\ [][NextPosition]_vars

\* an invocation that was made runs
SpecPositionFair == SpecPosition /\ WF_vars(NextPosition)

(***************************************************************************)
(* Lazy custom commands: executions that overlap                           *)
(***************************************************************************)
\* execute called at any time, up to its first await: with a cached command
\* it runs it at once, without one it calls lazy.load() and waits
ExecuteOverlapping(c) ==
    /\ c \in created
    /\ Len(execs) < MaxExecs
    /\ IF NotCached(c)
       THEN /\ loads' = [loads EXCEPT ![c] = Append(@, "pending")]
            /\ execs' = Append(execs, [cmd |-> c, pc |-> "loading",
                                       load |-> Len(loads[c]) + 1, ran |-> NoCommand])
       ELSE /\ execs' = Append(execs, [cmd |-> c, pc |-> "done", load |-> 0,
                                       ran |-> cached[c]])
            /\ UNCHANGED loads
    /\ UNCHANGED <<created, cached>>
    /\ UNCHANGED <<gvars, bvars, svars, shvars, evars, qvars, tvars, pfvars,
                   xavars, cuvars>>

\* the promise of lazy.load() resolves: cached is assigned and
\* cached.execute(args, ctx) runs before any other task does
LoadResolvesThenRuns(e) ==
    /\ execs[e].pc = "loading"
    /\ cached' = [cached EXCEPT ![execs[e].cmd] = execs[e].load]
    /\ loads' = [loads EXCEPT ![execs[e].cmd][execs[e].load] = "resolved"]
    /\ execs' = [execs EXCEPT ![e].pc = "done", ![e].ran = execs[e].load]
    /\ UNCHANGED created
    /\ UNCHANGED <<gvars, bvars, svars, shvars, evars, qvars, tvars, pfvars,
                   xavars, cuvars>>

NextLazy ==
    \/ \E c \in LazyNames : CreateLazy(c)
    \/ \E c \in LazyNames : ExecuteOverlapping(c)
    \/ \E e \in 1..Len(execs) : LoadResolvesThenRuns(e)
    \/ \E e \in 1..Len(execs) : LoadRejects(e)

SpecLazy == InitLazy /\ [][NextLazy]_vars

(***************************************************************************)
(* printf: one call                                                        *)
(***************************************************************************)
\* printf format [arguments], with or without ctx.limits.maxStringLength
InitPrintf ==
    /\ pformat \in Formats
    /\ pargs \in PrintfArgs
    /\ plimit \in StringLimits
    /\ pargPos = 0
    /\ poutput = <<>>
    /\ ppasses = 0
    /\ ppc = "loop"
    /\ ParkGetopts
    /\ ParkBashEnv
    /\ ParkStmt
    /\ ParkLazy
    /\ ParkShell
    /\ ParkEnv
    /\ ParkQuote
    /\ ParkPosition
    /\ ParkXargs
    /\ ParkCut

\* maxStringLength !== undefined && maxStringLength > 0 &&
\* output.length > maxStringLength
OverLimit(output) == plimit > 0 /\ ByteLength(output) > plimit

\* one pass of the do-while loop, up to its while test or its break
FormatPass ==
    /\ ppc = "loop"
    /\ LET r == formatOnce(pformat, pargs, pargPos)
           output == poutput \o r.result
           argPos == pargPos + r.argsConsumed
       IN  /\ ~OverLimit(output)
           /\ poutput' = output
           /\ pargPos' = argPos
           /\ ppc' = IF r.stopped THEN "stopped"
                     ELSE IF ReuseFormat(argPos, pargs) THEN "loop"
                     ELSE "done"
    /\ ppasses' = ppasses + 1
    /\ UNCHANGED <<pformat, pargs, plimit>>
    /\ UNCHANGED <<gvars, bvars, svars, lvars, shvars, evars, qvars, tvars,
                   xavars, cuvars>>

\* one pass of the do-while loop that throws ExecutionLimitError
FormatPassOverLimit ==
    /\ ppc = "loop"
    /\ LET r == formatOnce(pformat, pargs, pargPos)
           output == poutput \o r.result
       IN  /\ OverLimit(output)
           /\ poutput' = output
    /\ ppc' = "thrown"
    /\ ppasses' = ppasses + 1
    /\ UNCHANGED <<pformat, pargs, plimit, pargPos>>
    /\ UNCHANGED <<gvars, bvars, svars, lvars, shvars, evars, qvars, tvars,
                   xavars, cuvars>>

NextPrintf == FormatPass \/ FormatPassOverLimit

SpecPrintf == InitPrintf /\ [][NextPrintf]_vars

\* the loop is not suspended: a pass that can run does run
SpecPrintfFair == SpecPrintf /\ WF_vars(NextPrintf)

(***************************************************************************)
(* xargs -n N command: one call                                            *)
(***************************************************************************)
InitXargs ==
    /\ xitems \in XargsItems
    /\ xmaxArgs \in MaxArgsValues
    /\ xi = Num(0)
    /\ xbatches = <<>>
    /\ xpc = "start"
    /\ ParkGetopts
    /\ ParkBashEnv
    /\ ParkStmt
    /\ ParkLazy
    /\ ParkShell
    /\ ParkEnv
    /\ ParkQuote
    /\ ParkPosition
    /\ ParkPrintf
    /\ ParkCut

\* if (items.length === 0) return
ReturnNoItems ==
    /\ xpc = "start"
    /\ Len(xitems) = 0
    /\ xpc' = "returned"
    /\ UNCHANGED <<xitems, xmaxArgs, xi, xbatches>>
    /\ UNCHANGED <<gvars, bvars, svars, lvars, shvars, evars, qvars, tvars,
                   pfvars, cuvars>>

\* for (let i = 0; i < items.length; ...), entered with items
EnterBatching ==
    /\ xpc = "start"
    /\ Len(xitems) # 0
    /\ xi' = Num(0)
    /\ xpc' = IF LessThanLength(Num(0), xitems) THEN "loop" ELSE "returned"
    /\ UNCHANGED <<xitems, xmaxArgs, xbatches>>
    /\ UNCHANGED <<gvars, bvars, svars, lvars, shvars, evars, qvars, tvars,
                   pfvars, cuvars>>

\* one iteration: the batch is executed, then i += maxArgs and the loop test
RunBatch ==
    /\ xpc = "loop"
    /\ Len(xbatches) < MaxBatches
    /\ LET to == Plus(xi, xmaxArgs)
           batch == slice(xitems, xi.n, IF to.nan THEN 0 ELSE to.n)
       IN  /\ xbatches' = Append(xbatches, batch)
           /\ xi' = to
           /\ xpc' = IF LessThanLength(to, xitems) THEN "loop" ELSE "returned"
    /\ UNCHANGED <<xitems, xmaxArgs>>
    /\ UNCHANGED <<gvars, bvars, svars, lvars, shvars, evars, qvars, tvars,
                   pfvars, cuvars>>

NextXargs == ReturnNoItems \/ EnterBatching \/ RunBatch

SpecXargs == InitXargs /\ [][NextXargs]_vars

\* the loop is not suspended for ever: executeCommand returns
SpecXargsFair == SpecXargs /\ WF_vars(NextXargs)

(***************************************************************************)
(* cut -f LIST: one line                                                   *)
(***************************************************************************)
InitCut ==
    /\ cfields \in CutLines
    /\ cranges \in CutRangeLists
    /\ cselected = <<>>
    /\ cpc = "given"
    /\ ParkGetopts
    /\ ParkBashEnv
    /\ ParkStmt
    /\ ParkLazy
    /\ ParkShell
    /\ ParkEnv
    /\ ParkQuote
    /\ ParkPosition
    /\ ParkPrintf
    /\ ParkXargs

\* const selected = extractByRanges(fields, ranges)
CutLine ==
    /\ cpc = "given"
    /\ cselected' = extractByRanges(cfields, cranges)
    /\ cpc' = "cut"
    /\ UNCHANGED <<cfields, cranges>>
    /\ UNCHANGED <<gvars, bvars, svars, lvars, shvars, evars, qvars, tvars,
                   pfvars, xavars>>

NextCut == CutLine

SpecCut == InitCut /\ [][NextCut]_vars

(***************************************************************************)
(* Reference reading of an argument list (POSIX getopts), used to state    *)
(* what the calls have to report.                                          *)
(***************************************************************************)
Declared(ostr, c) ==
    c # ":" /\ \E k \in 1..Len(actualOptstring(ostr)) : actualOptstring(ostr)[k] = c

TakesArg(ostr, c) ==
    /\ c # ":"
    /\ \E k \in 1..(Len(actualOptstring(ostr)) - 1) :
          actualOptstring(ostr)[k] = c /\ actualOptstring(ostr)[k + 1] = ":"

IsOptionArg(w) == Len(w) >= 2 /\ w[1] = "-" /\ w # <<"-", "-">>

\* the reports due from character j of argument i on, and the final OPTIND
RECURSIVE RefParse(_, _, _, _)
RefParse(ostr, argv, i, j) ==
    IF i > Len(argv) THEN [reports |-> <<>>, end |-> Len(argv) + 1]
    ELSE IF argv[i] = <<"-", "-">> THEN [reports |-> <<>>, end |-> i + 1]
    ELSE IF ~IsOptionArg(argv[i]) THEN [reports |-> <<>>, end |-> i]
    ELSE
    LET w == argv[i]
        c == w[j]
    IN
    IF TakesArg(ostr, c)
    THEN IF j < Len(w)
         THEN LET rest == RefParse(ostr, argv, i + 1, 2) IN
              [reports |-> <<[char |-> c, kind |-> "arg", arg |-> SubSeq(w, j + 1, Len(w))]>>
                           \o rest.reports,
               end |-> rest.end]
         ELSE IF i < Len(argv)
              THEN LET rest == RefParse(ostr, argv, i + 2, 2) IN
                   [reports |-> <<[char |-> c, kind |-> "arg", arg |-> argv[i + 1]]>>
                                \o rest.reports,
                    end |-> rest.end]
              ELSE [reports |-> <<[char |-> c, kind |-> "missing", arg |-> <<>>]>>,
                    end |-> Len(argv) + 1]
    ELSE LET rest == IF j < Len(w) THEN RefParse(ostr, argv, i, j + 1)
                                   ELSE RefParse(ostr, argv, i + 1, 2)
         IN  [reports |-> <<[char |-> c,
                             kind |-> IF Declared(ostr, c) THEN "flag" ELSE "illegal",
                             arg |-> <<>>]>> \o rest.reports,
              end |-> rest.end]

Ref == RefParse(optstring, argsToProcess, 1, 2)

\* the option character a call's result reports
ReportedChar(h) ==
    IF h.stderr # EMPTY THEN h.stderr[1].opt
    ELSE IF h.name \in {"?", ":"} /\ h.OPTARG # EMPTY THEN h.OPTARG[1]
    ELSE h.name

\* C9: repeated getopts calls over a fixed argument list report every option
\* character exactly once, left to right, bundled ones included (call i
\* returns 0 and reports the i-th option character of the list); an option
\* declared with ':' has OPTARG set to the rest of its argument or to the
\* following argument; the call after the last option returns 1 with OPTIND
\* indexing the first non-option argument.
C9_GetoptsReportsEachOptionOnce ==
    LET ref == Ref IN
    \A i \in 1..Len(ghist) :
        /\ i <= Len(ref.reports) =>
              /\ ghist[i].exitCode = 0
              /\ ReportedChar(ghist[i]) = ref.reports[i].char
              /\ ref.reports[i].kind \in {"flag", "arg"} =>
                    ghist[i].name = ref.reports[i].char
              /\ ref.reports[i].kind = "arg" => ghist[i].OPTARG = ref.reports[i].arg
        /\ i = Len(ref.reports) + 1 =>
              /\ ghist[i].exitCode = 1
              /\ ghist[i].OPTIND = ref.end

\* a bundled argument -ba whose option a takes the following argument has been
\* reported as b, then a with OPTARG, and the third call has returned 1
C9_Witness ==
    /\ optstring = <<"a", ":", "b">>
    /\ argsToProcess = <<(<<"-", "b", "a">>), (<<"a">>)>>
    /\ Len(ghist) = 3
    /\ ghist[1].name = "b" /\ ghist[1].exitCode = 0
    /\ ghist[2].name = "a" /\ ghist[2].OPTARG = <<"a">>
    /\ ghist[3].exitCode = 1 /\ ghist[3].OPTIND = 3

\* C10: when optstring starts with ':' (silent mode) getopts never writes to
\* stderr; an illegal option sets the name variable to '?' and OPTARG to the
\* option character; an option missing its required argument sets the name
\* variable to ':' and OPTARG to the option character.
C10_SilentModeReports ==
    LET ref == Ref IN
    silentMode(optstring) =>
        \A i \in 1..Len(ghist) :
            /\ ghist[i].stderr = EMPTY
            /\ (i <= Len(ref.reports) /\ ref.reports[i].kind = "illegal") =>
                  /\ ghist[i].name = "?"
                  /\ ghist[i].OPTARG = <<ref.reports[i].char>>
            /\ (i <= Len(ref.reports) /\ ref.reports[i].kind = "missing") =>
                  /\ ghist[i].name = ":"
                  /\ ghist[i].OPTARG = <<ref.reports[i].char>>

C10_SilentModeReportsExceptColon ==
    LET ref == Ref IN
    silentMode(optstring) =>
        \A i \in 1..Len(ghist) :
            /\ ghist[i].stderr = EMPTY
            /\ (i <= Len(ref.reports) /\ ref.reports[i].kind = "illegal"
                   /\ ref.reports[i].char # ":") =>
                  /\ ghist[i].name = "?"
                  /\ ghist[i].OPTARG = <<ref.reports[i].char>>
            /\ (i <= Len(ref.reports) /\ ref.reports[i].kind = "missing") =>
                  /\ ghist[i].name = ":"
                  /\ ghist[i].OPTARG = <<ref.reports[i].char>>

\* the calls made right after an assignment OPTIND=1
CallsAfterReset == {i \in 2..Len(ghist) : IsAssignment(ghist[i - 1])}

\* call i reported what a parse that starts at the first argument reports first
StartedOver(i) ==
    LET ref == Ref IN
    IF Len(ref.reports) = 0
    THEN ghist[i].exitCode = 1 /\ ghist[i].OPTIND = ref.end
    ELSE /\ ghist[i].exitCode = 0
         /\ ReportedChar(ghist[i]) = ref.reports[1].char
         /\ ref.reports[1].kind = "arg" => ghist[i].OPTARG = ref.reports[1].arg

\* C24: after the caller sets OPTIND back to 1, the next getopts call examines
\* the first option character of the first argument, wherever the previous
\* parse stopped, the middle of a bundled argument included.
C24_ResetStartsOver == \A i \in CallsAfterReset : StartedOver(i)

\* C24 (part that holds): the call after OPTIND=1 starts over when the
\* previous parse had stopped at the end of an argument.
C24_ResetStartsOverBetweenArguments ==
    \A i \in CallsAfterReset : ghist[i - 1].CHARINDEX = 0 => StartedOver(i)

\* the call reported an option as valid: exit 0, no diagnostic, the name set
\* to the character (not to '?', and not to ':' for a missing argument)
ReportedValid(h) ==
    /\ h.exitCode = 0
    /\ h.stderr = EMPTY
    /\ h.name # "?"
    /\ ~(h.name = ":" /\ h.OPTARG # EMPTY)

\* C25: getopts reports an option as valid only for characters declared as
\* options in optstring; the ':' markers of optstring are never accepted as
\* option characters.
C25_OnlyDeclaredOptionsAccepted ==
    \A i \in 1..Len(ghist) :
        ReportedValid(ghist[i]) => Declared(optstring, ghist[i].name)

\* C25 (part that holds): a character reported as valid occurs in optstring.
C25_AcceptedOccursInOptstring ==
    \A i \in 1..Len(ghist) :
        ReportedValid(ghist[i]) =>
            \E k \in 1..Len(actualOptstring(optstring)) :
                actualOptstring(optstring)[k] = ghist[i].name

\* C26: across any sequence of getopts calls over a fixed list of k arguments,
\* starting from OPTIND=1 and with no outside change to OPTIND, OPTIND never
\* decreases and always stays within 1..k+1.
C26_OptindMonotoneAndBounded ==
    /\ genv.OPTIND \in 1..(Len(argsToProcess) + 1)
    /\ \A i \in 1..Len(ghist) :
          /\ ghist[i].OPTIND \in 1..(Len(argsToProcess) + 1)
          /\ i > 1 => ghist[i - 1].OPTIND <= ghist[i].OPTIND
          /\ i = Len(ghist) => ghist[i].OPTIND = genv.OPTIND

\* over two arguments a call stayed inside a bundle, a later call met an option
\* missing its argument and moved OPTIND to 3, and the call after it left it there
C26_Witness ==
    /\ Len(argsToProcess) = 2
    /\ Len(ghist) >= 4
    /\ ghist[1].OPTIND = 1
    /\ \E i \in 2..(Len(ghist) - 1) :
          /\ ghist[i].stderr = MissingArgMsg("a")
          /\ ghist[i].OPTIND = 3
          /\ ghist[i + 1].exitCode = 1
          /\ ghist[i + 1].OPTIND = 3

(***************************************************************************)
(* Reading the log of executePipeline                                      *)
(***************************************************************************)
\* the log entries of the commands that ran before entry k in its pipeline
RanBefore(k) ==
    { j \in 1..(k - 1) : plog[j].pipeline = plog[k].pipeline /\ plog[j].ran }

\* the last command that ran before entry k in its pipeline
LastRanBefore(k) == CHOOSE j \in RanBefore(k) : \A m \in RanBefore(k) : m <= j

\* the exit code `exit args` asks for
ExitCodeAskedFor(args) == IF args = <<>> THEN 0 ELSE ParseInt(args[1])

\* C3: `exit n` terminates execution: no command that follows it in the
\* script is run, and the result's exit code is n (0 when n is omitted).
C3_ExitTerminates ==
    \A k \in 1..Len(plog) :
        (plog[k].ran /\ plog[k].command = "exit") =>
            /\ \A j \in (k + 1)..Len(plog) : ~plog[j].ran
            /\ bpc = "done" => xlast.exitCode = ExitCodeAskedFor(plog[k].args)

\* C7: in a pipeline, stage i runs to completion before stage i+1 starts, and
\* stage i+1 receives as its stdin exactly the complete stdout of stage i.
C7_StageReceivesPredecessorStdout ==
    \A k \in 1..Len(plog) :
        (plog[k].ran /\ plog[k].operator = "" /\ plog[k].index > 1) =>
            /\ k > 1
            /\ plog[k - 1].pipeline = plog[k].pipeline
            /\ plog[k - 1].index = plog[k].index - 1
            /\ plog[k - 1].ran
            /\ plog[k].stdin = plog[k - 1].result.stdout

\* C8: in an and/or list, the command after && runs if and only if the last
\* executed command exited 0, the command after || runs if and only if it
\* exited nonzero, and the exit code of the list is that of the last command
\* that was executed.
C8_AndOrList ==
    /\ \A k \in 1..Len(plog) :
          /\ plog[k].operator \in {"&&", "||"} => RanBefore(k) # {}
          /\ plog[k].operator = "&&" =>
                (plog[k].ran <=> plog[LastRanBefore(k)].result.exitCode = 0)
          /\ plog[k].operator = "||" =>
                (plog[k].ran <=> plog[LastRanBefore(k)].result.exitCode # 0)
    /\ (bpc = "done" /\ Len(plog) > 0) =>
          LET ranLast == { j \in 1..Len(plog) :
                             plog[j].pipeline = Len(pipelines) /\ plog[j].ran }
              last == CHOOSE j \in ranLast : \A m \in ranLast : m <= j
          IN  xlast.exitCode = plog[last].result.exitCode

\* `false && echo x || echo x` has returned: the && command was skipped, the
\* || command ran, and its exit code is the list's
C8_Witness ==
    /\ bpc = "done"
    /\ Len(pipelines) = 1
    /\ Len(plog) = 3
    /\ plog[1].command = "false" /\ plog[1].ran
    /\ plog[2].operator = "&&" /\ ~plog[2].ran
    /\ plog[3].operator = "||" /\ plog[3].ran /\ plog[3].command = "echo"
    /\ xlast.exitCode = 0

\* the stdout of the logged commands from entry k on that ran and were not
\* piped into a following command, in the order they ran
RECURSIVE UnpipedStdoutFrom(_)
UnpipedStdoutFrom(k) ==
    IF k > Len(plog) THEN EMPTY
    ELSE (IF plog[k].ran /\ ~PipesToNext(pipelines[plog[k].pipeline], plog[k].index)
          THEN plog[k].result.stdout ELSE EMPTY) \o UnpipedStdoutFrom(k + 1)

\* C21: the stdout one exec call returns is the concatenation, in execution
\* order, of the stdout of every command that ran and was not piped into a
\* following command, also when the line consists of several pipelines.
C21_ExecReturnsAllStdout == bpc = "done" => xlast.stdout = UnpipedStdoutFrom(1)

\* the entries of the last pipeline start here
FirstOfLastPipeline ==
    CHOOSE k \in 1..(Len(plog) + 1) :
        /\ \A j \in 1..(k - 1) : plog[j].pipeline < Len(pipelines)
        /\ \A j \in k..Len(plog) : plog[j].pipeline = Len(pipelines)

\* C21 (part that holds): exec returns the stdout of the commands of its last
\* pipeline that ran and were not piped into a following command.
C21_ExecReturnsLastPipelineStdout ==
    bpc = "done" => xlast.stdout = UnpipedStdoutFrom(FirstOfLastPipeline)

\* C22: when the command before && exits nonzero, or the command before ||
\* exits 0, no stage of the pipeline to the right of the operator runs: a
\* command piped from a command that was skipped does not run either.
C22_SkippedPipelineRunsNoStage ==
    \A k \in 2..Len(plog) :
        (/\ plog[k].pipeline = plog[k - 1].pipeline
         /\ plog[k].operator = ""
         /\ ~plog[k - 1].ran) => ~plog[k].ran

(***************************************************************************)
(* Claims about statement lists and control-flow errors                    *)
(***************************************************************************)
\* execution ended because an error reached the script
EndedByError == spc = "done" /\ final.raised # "none"

\* the error that ended execution is the first one raised
FirstErrorReachedScript ==
    /\ EndedByError
    /\ fatal.kind # InternalError
    /\ fatal.kind = final.raised
    /\ final.stdout # EMPTY
    /\ final.stdout[Len(final.stdout)] = fatal.stdout[1]

\* C1: a control-flow error raised anywhere inside nested statement lists
\* reaches its handler carrying every byte written to stdout and stderr
\* before the raise, in the order written
C1_ErrorCarriesAllOutput ==
    FirstErrorReachedScript => (final.stdout = wout /\ final.stderr = werr)

\* C2: with errexit on, once a command outside every suppressing context
\* exits with a nonzero code c, no later statement is started and execution
\* ends with exit code c
C2_ErrexitTerminates ==
    /\ [](fatal.kind = "ErrexitError" => ~ranAfterFatal)
    /\ [](fatal.kind = "ErrexitError" /\ spc = "done"
            => final.raised = "ErrexitError" /\ final.exitCode = fatal.exitCode)
    /\ (fatal.kind = "ErrexitError") ~> (spc = "done")

\* set -e; echo; { false; echo nope; } ended with exit code 1 and the output
\* written up to the failing command
C2_Witness ==
    /\ errexit
    /\ spc = "done"
    /\ final.raised = "ErrexitError"
    /\ final.exitCode = 1
    /\ nstmt = 3
    /\ final.stdout = <<Token(1, "out"), Token(3, "out")>>
    /\ ~ranAfterFatal

\* C4: once a statement has raised NounsetError, no statement of the same
\* list or of an enclosing list is started, and the script ends with exit
\* code 1
C4_NounsetAborts ==
    fatal.kind = "NounsetError"
        => /\ ~ranAfterFatal
           /\ spc = "done" => (final.raised = "NounsetError" /\ final.exitCode = 1)

\* C5: once a statement has raised PosixFatalError, execution is not resumed
\* by any enclosing list: the error propagates until the script ends with it
C5_PosixFatalTerminates ==
    fatal.kind = "PosixFatalError"
        => /\ spc \in {"unwind", "done"}
           /\ spc = "unwind" => thrown.kind = "PosixFatalError"
           /\ spc = "done" => final.raised = "PosixFatalError"

\* the condition evaluations that are under way
CondFrames == {i \in 1..Len(frames) : frames[i].kind = "cond"}

\* C6: outside every condition evaluation in_condition has the value it had
\* before the outermost one started, and inside nested evaluations every
\* saved value is the one in force when that evaluation started, whether the
\* evaluations before it returned or threw
C6_InConditionRestored ==
    spc \in {"run", "unwind", "done"}
        => /\ inCondition = (CondFrames # {})
           /\ \A i \in CondFrames :
                frames[i].savedInCondition = (\E j \in CondFrames : j < i)

\* if if echo; exit; ...: the exit has left the inner evaluation, which did not
\* hand on the output of its echo, and in_condition is again what the outer
\* evaluation set
C6_Witness ==
    /\ spc = "unwind"
    /\ thrown.kind = "ExitError"
    /\ fatal.stdout = <<Token(4, "out")>>
    /\ nstmt = 4
    /\ Len(frames) = 2
    /\ frames[2].kind = "cond"
    /\ ~frames[2].savedInCondition
    /\ frames[1].stdout = EMPTY
    /\ frames[2].stdout = EMPTY
    /\ wout = <<Token(3, "out"), Token(4, "out")>>
    /\ thrown.stdout = <<Token(4, "out")>>
    /\ inCondition

\* C12: once a statement has raised ExecutionLimitError the error is never
\* turned into an ordinary result: it propagates until the script ends with
\* exit code 126, and it then carries every byte written before the raise
C12_ExecutionLimitCarriesOutput ==
    fatal.kind = "ExecutionLimitError"
        => /\ spc \in {"unwind", "done"}
           /\ spc = "unwind" => thrown.kind = "ExecutionLimitError"
           /\ spc = "done" => /\ final.raised = "ExecutionLimitError"
                              /\ final.exitCode = EXIT_CODE
                              /\ final.stdout = wout
                              /\ final.stderr = werr

\* the same statement without the output the error has to carry
C12_ExecutionLimitNotConverted ==
    fatal.kind = "ExecutionLimitError"
        => /\ spc \in {"unwind", "done"}
           /\ spc = "unwind" => thrown.kind = "ExecutionLimitError"
           /\ spc = "done" => /\ final.raised = "ExecutionLimitError"
                              /\ final.exitCode = EXIT_CODE

\* the line the spec gives for an unexpected error: bash: internal error: ...
InternalErrorLine == <<Token(0, "bash: internal error: "), Token(0, InternalError)>>

\* C17: an error that is no control-flow error, thrown while a statement
\* list executes, does not vanish: it propagates until a list turns it into
\* a result, and that result has exit code 1, the stdout the list had
\* accumulated, and the stderr it had accumulated followed by a
\* `bash: internal error: ...` line
C17_UnexpectedErrorReported ==
    /\ (fatal.kind = InternalError /\ caught.kind = "none")
          => (spc = "unwind" /\ thrown.kind = InternalError)
    /\ caught.kind = InternalError =>
          /\ caught.yielded.exitCode = 1
          /\ caught.yielded.stdout = caught.accumulated.stdout
          /\ caught.yielded.stderr = caught.accumulated.stderr \o InternalErrorLine

\* the same statement with the error's own message as the line appended
C17_UnexpectedErrorMessageAppended ==
    /\ (fatal.kind = InternalError /\ caught.kind = "none")
          => (spc = "unwind" /\ thrown.kind = InternalError)
    /\ caught.kind = InternalError =>
          /\ caught.yielded.exitCode = 1
          /\ caught.yielded.stdout = caught.accumulated.stdout
          /\ caught.yielded.stderr =
                caught.accumulated.stderr \o <<Token(0, InternalError)>>

\* the loops a break that is on its way has still to leave
LoopsToLeave == {i \in LoopFrames : i > brk.resume}

\* C18 (part that holds): a break n inside at least n loops leaves exactly the
\* n innermost loops, and the statement after the n-th loop is the next to run:
\* while the break is on its way it is still an error with as many levels as
\* there are loops left to leave, and when it is caught the running call is the
\* one that started the n-th loop.
C18_BreakLeavesLoops ==
    /\ brk.state = "raised" =>
          /\ spc = "unwind"
          /\ thrown.kind = "BreakError"
          /\ Len(frames) > brk.resume
          /\ thrown.levels = Cardinality(LoopsToLeave)
    /\ brk.state = "handled" => brk.at = brk.resume

\* C18: a break n inside at least n loops ends exactly the n innermost loops,
\* execution goes on right after the n-th loop, and every byte written before
\* the break is still in the output when execution goes on.
C18_BreakKeepsOutput ==
    /\ C18_BreakLeavesLoops
    /\ brk.state = "handled" =>
          /\ brk.kept = brk.written
          /\ brk.keptErr = brk.writtenErr

(***************************************************************************)
(* Claims about lazy custom commands                                       *)
(***************************************************************************)
\* the executions of lazy command c, oldest first
ExecsOf(c) == {e \in 1..Len(execs) : execs[e].cmd = c}

IsFirstExec(e) == \A d \in ExecsOf(execs[e].cmd) : d >= e

\* C13 as stated: load() is not called when the lazy command is created; the
\* first execution calls it; no later execution calls it again
C13_LoadOnFirstExecutionOnly ==
    /\ \A c \in LazyNames : ExecsOf(c) = {} => loads[c] = <<>>
    /\ \A e \in 1..Len(execs) :
          IF IsFirstExec(e) THEN execs[e].load = 1 ELSE execs[e].load = 0

\* C13 amended: load() is not called when the lazy command is created; the
\* first execution calls it; an execution after the first calls it only if
\* every earlier load() was rejected, so once a load() has resolved no later
\* execution calls it again, and every execution runs the command it returned
C13_LoadOnceResolved ==
    /\ \A c \in LazyNames : ExecsOf(c) = {} => loads[c] = <<>>
    /\ \A e \in 1..Len(execs) :
          /\ IsFirstExec(e) => execs[e].load = 1
          /\ execs[e].load > 1 =>
                \A k \in 1..(execs[e].load - 1) : loads[execs[e].cmd][k] = "rejected"
          /\ execs[e].pc = "done" =>
                /\ execs[e].ran # NoCommand
                /\ loads[execs[e].cmd][execs[e].ran] = "resolved"
    /\ \A c \in LazyNames :
          Cardinality({k \in 1..Len(loads[c]) : loads[c][k] = "resolved"}) <= 1

\* lazy-test was executed three times: its first load() was rejected, the
\* second execution loaded it, the third ran the cached command without load()
C13_Witness ==
    /\ Len(execs) = 3
    /\ \A e \in 1..3 : execs[e].cmd = "lazy-test"
    /\ execs[1].pc = "failed"
    /\ execs[2].pc = "done" /\ execs[2].load = 2
    /\ execs[3].pc = "done" /\ execs[3].load = 0 /\ execs[3].ran = 2
    /\ loads["lazy-test"] = <<"rejected", "resolved">>

(***************************************************************************)
(* Claims about BashEnv's commands                                         *)
(***************************************************************************)
\* C14: whenever a built-in name is dispatched under which a custom command
\* is registered, the custom command is what runs
C14_CustomOverridesBuiltin ==
    (shlast.command \in BuiltinNames /\ shlast.registeredAs = "custom")
        => shlast.ran = "custom"

\* the same statement for the built-ins the constructor registers
C14_CustomOverridesRegisteredBuiltin ==
    (shlast.command \in RegisteredBuiltins /\ shlast.registeredAs = "custom")
        => shlast.ran = "custom"

\* C15: after a successful cd OLDPWD is the working directory from before it
\* and PWD the new one, and cd - has changed to the OLDPWD from before it; a
\* cd that failed has changed neither the working directory nor OLDPWD
C15_CdUpdatesOldpwd ==
    shlast.command = "cd"
        => IF shlast.result.exitCode = 0
           THEN /\ shellEnv.OLDPWD = shlast.cwdBefore
                /\ shellEnv.PWD = cwd
                /\ shlast.target = "-" => cwd = shlast.previousDirBefore
           ELSE /\ cwd = shlast.cwdBefore
                /\ previousDir = shlast.previousDirBefore

\* the same statement about the private fields: previousDir for OLDPWD and
\* cwd for PWD
C15_CdTracksPreviousDir ==
    shlast.command = "cd"
        => IF shlast.result.exitCode = 0
           THEN /\ previousDir = shlast.cwdBefore
                /\ cwd = CdNewDir(shlast.target, shlast.previousDirBefore)
           ELSE /\ cwd = shlast.cwdBefore
                /\ previousDir = shlast.previousDirBefore

\* C16: after ls > file 2>&1 the file holds what ls wrote to stdout followed
\* by what it wrote to stderr, and the returned stdout and stderr are empty
C16_StderrFollowsStdoutRedirection ==
    (/\ shlast.command = "ls"
     /\ shlast.ran = "builtin"
     /\ shlast.redirections = << [type |-> "stdout", append |-> FALSE],
                                 [type |-> "stderr-to-stdout", append |-> FALSE] >>)
        => /\ fs = <<"out", "err">>
           /\ shlast.result.stdout = EMPTY
           /\ shlast.result.stderr = EMPTY

(***************************************************************************)
(* Claims about the environment a custom command receives                  *)
(***************************************************************************)
\* every name but key has the value it had before the last step
OthersUntouched(key) == \A j \in EnvKeys \ {key} : ctxEnv[j] = envlast.before[j]

\* C19: the env a command receives is a live view of the interpreter's
\* environment: after set, delete or clear through it the interpreter's
\* environment holds the encoded value, lacks the name, or is empty, and get,
\* has and size answer from what the interpreter's environment holds at the
\* moment of the call, whatever it held when the command was started.
C19_EnvIsLiveView ==
    /\ envlast.op = "set" =>
          /\ ctxEnv[envlast.key] = encode(envlast.value)
          /\ OthersUntouched(envlast.key)
    /\ envlast.op = "delete" =>
          /\ ctxEnv[envlast.key] = Absent
          /\ OthersUntouched(envlast.key)
          /\ envlast.returned = <<envlast.before[envlast.key] # Absent>>
    /\ envlast.op = "clear" => \A k \in EnvKeys : ctxEnv[k] = Absent
    /\ envlast.op = "get" =>
          envlast.returned = IF ctxEnv[envlast.key] = Absent THEN Undefined
                             ELSE decode(ctxEnv[envlast.key])
    /\ envlast.op = "has" => envlast.returned = <<ctxEnv[envlast.key] # Absent>>
    /\ envlast.op = "size" =>
          envlast.returned = <<Cardinality({k \in EnvKeys : ctxEnv[k] # Absent})>>

\* a command read a name the interpreter had changed after the command started
C19_Witness ==
    /\ envlast.op = "get"
    /\ ctxEnv[envlast.key] # Absent
    /\ atCreation[envlast.key] # ctxEnv[envlast.key]
    /\ envlast.returned = decode(ctxEnv[envlast.key])

(***************************************************************************)
(* Claims about printf %q                                                  *)
(***************************************************************************)
\* every byte of 0x80 and above in the bytes belongs to a sequence that is the
\* UTF-8 encoding of a character
IsWellFormedWhereSequenced(bytes) ==
    \A i \in 1..Len(bytes) :
        (bytes[i] >= 128 /\ IsValidSequenceAt(bytes, i))
            => encode(decode(SubSeq(bytes, i, i + utf8SeqLength(bytes[i]) - 1)))
                  = SubSeq(bytes, i, i + utf8SeqLength(bytes[i]) - 1)

\* C20: for every byte sequence x, the text printf writes for %q applied to x,
\* read back by the shell with eval echo, is x (followed by echo's newline).
C20_QuotedTextReadsBack == qpc = "read" => qback = qx \o <<10>>

\* C20 (part that holds): the text reads back as x whenever every lead byte of
\* x that is followed by the announced number of continuation bytes starts the
\* UTF-8 encoding of a character.
C20_WellFormedTextReadsBack ==
    (qpc = "read" /\ IsWellFormedWhereSequenced(qx)) => qback = qx \o <<10>>

(***************************************************************************)
(* Claims about the invocations of one getopts call                        *)
(***************************************************************************)
\* C27: every getopts call terminates for every value of OPTIND and of the
\* internal char-index: the call returns, each re-invocation made when the
\* current argument has no character left strictly advances OPTIND, and the
\* number of re-invocations never exceeds the number of arguments.
C27_GetoptsTerminates ==
    /\ <>(tpc = "returned")
    /\ [](tdepth <= Len(targs))
    /\ [][tdepth' > tdepth =>
            /\ ~tOptind'.nan
            /\ tOptind'.n > ClampedOptind(tOptind).n
            /\ tOptind'.n <= Len(targs) + 1]_vars

\* a call that found no character of -ab at the char-index re-invoked itself and
\* returned from the next argument
C27_Witness ==
    /\ tpc = "returned"
    /\ tdepth = 1
    /\ Len(targs) = 2
    /\ targs[1] = <<"-", "a", "b">>
    /\ tOptind = Num(2)

(***************************************************************************)
(* Claims about lazy custom commands whose executions overlap              *)
(***************************************************************************)
\* the executions of c that ran a command
RanOf(c) == {e \in 1..Len(execs) : execs[e].cmd = c /\ execs[e].pc = "done"}

\* C23: however the executions of one lazy custom command interleave,
\* load() is called at most once and every execution runs the same loaded
\* command.
C23_LoadOnceUnderInterleaving ==
    \A c \in LazyNames :
        /\ Len(loads[c]) <= 1
        /\ \A e1, e2 \in RanOf(c) : execs[e1].ran = execs[e2].ran

(***************************************************************************)
(* Claims about printf                                                     *)
(***************************************************************************)
\* what one pass of the format takes from the first argument on
FirstPass == formatOnce(pformat, pargs, 0)

\* C28: printf goes through the format again until the arguments are used
\* up and always ends: a pass of a format that takes arguments moves the
\* argument position on by at least one, and a format that takes no argument
\* is written exactly once however many arguments there are.  The loop also
\* ends early, at a %b argument that holds \c and at the output limit.
C28_FormatReuseTerminates ==
    /\ <>(ppc \in {"done", "stopped", "thrown"})
    /\ [][ppasses' > ppasses /\ formatOnce(pformat, pargs, pargPos).argsConsumed > 0
            => pargPos' >= pargPos + 1 \/ ppc' = "thrown"]_vars
    /\ [](FirstPass.argsConsumed = 0 => ppasses <= 1)
    /\ [](ppc = "done" /\ FirstPass.argsConsumed = 0
            => ppasses = 1 /\ poutput = FirstPass.result)
    /\ [](ppc = "done" /\ FirstPass.argsConsumed > 0 => pargPos >= Len(pargs))
    /\ [](ppc = "loop" /\ ppasses > 0 => pargPos < Len(pargs))

C28_Witness ==
    /\ ppc = "done"
    /\ pformat = <<"%", "s">>
    /\ Len(pargs) = 2
    /\ ppasses = 2

(***************************************************************************)
(* Claims about xargs -n                                                   *)
(***************************************************************************)
\* C29: xargs -n N returns for every N and every input; each iteration of
\* the batching loop that is followed by another has moved on in the items.
C29_XargsTerminates ==
    /\ <>(xpc = "returned")
    /\ [][xpc = "loop" /\ xpc' = "loop" => xi'.n > xi.n]_vars

(***************************************************************************)
(* Claims about cut -f                                                     *)
(***************************************************************************)
\* the 1-indexed positions of the line that the list selects
SelectedPositions ==
    {p \in 1..Len(cfields) :
        \E r \in 1..Len(cranges) :
            /\ cranges[r].start <= p
            /\ cranges[r].open \/ p <= cranges[r].end}

Occurrences(s, v) == Cardinality({k \in 1..Len(s) : s[k] = v})

\* C30: cut -f writes the field at every selected position exactly once,
\* also when two selected fields have the same content.
C30_EverySelectedFieldOnce ==
    cpc = "cut" =>
        \A v \in CutFieldValues :
            Occurrences(cselected, v)
                = Cardinality({p \in SelectedPositions : cfields[p] = v})

\* with fields that all differ, every selected position is written once
C30_DistinctFieldsOnce ==
    cpc = "cut" /\ (\A p, q \in 1..Len(cfields) : cfields[p] = cfields[q] => p = q) =>
        \A v \in CutFieldValues :
            Occurrences(cselected, v)
                = Cardinality({p \in SelectedPositions : cfields[p] = v})

====
